---- MODULE Spec2Model ----
(***************************************************************************)
(* Storage core of the RDF quad store: the binary term codec               *)
(* (binary_encoder.rs), the nine quad indexes with their reader and        *)
(* transactional writer, and the bulk loader (storage/mod.rs).             *)
(***************************************************************************)
EXTENDS Integers, Sequences, FiniteSets, TLC

(***************************************************************************)
(* Bounds of the model.                                                    *)
(***************************************************************************)
\* string hashes (StrHash values) that occur in terms: 1..MaxHash
MaxHash == 2
\* largest number of quads a transaction view may hold
MaxRows == 2
\* largest number of writer calls made by the closure of one transaction
MaxOps == 2
\* largest number of quads in the input of a bulk load
MaxInput == 3
\* largest batch_size of a bulk load
MaxBatch == 2
\* the number given to StorageBulkLoader::set_num_threads
NumThreadsOption == 1
\* nesting depth of quoted triples given to the codec
MaxDepth == 2
\* largest value of the progress counter, in multiples of the display step
MaxProgress == 2
\* number of IRIs that the lines of a taxonomy file relate: hashes 1..MaxClasses
MaxClasses == 4
\* largest number of column families with writes not yet flushed or compacted
MaxDirty == 2
\* largest number of rows in the range of a scan
MaxScan == 2
\* largest number of layers of a ladder of classes: up to 2^MaxLadder intervals
MaxLadder == 8
\* largest number given to set_num_threads when the configuration is derived
MaxThreads == 3
\* largest storage version found in a stored database
MaxVersion == 2
\* number of rows changed behind the storage layer before validate
MaxTamper == 2

(***************************************************************************)
(* Program constants.                                                      *)
(***************************************************************************)
LATEST_STORAGE_VERSION == 1
TYPE_NAMED_NODE_ID == 1
TYPE_NUMERICAL_BLANK_NODE_ID == 8
TYPE_SMALL_BLANK_NODE_ID == 9
TYPE_BIG_BLANK_NODE_ID == 10
TYPE_SMALL_STRING_LITERAL == 16
TYPE_BIG_STRING_LITERAL == 17
TYPE_SMALL_SMALL_LANG_STRING_LITERAL == 20
TYPE_SMALL_BIG_LANG_STRING_LITERAL == 21
TYPE_BIG_SMALL_LANG_STRING_LITERAL == 22
TYPE_BIG_BIG_LANG_STRING_LITERAL == 23
TYPE_SMALL_TYPED_LITERAL == 24
TYPE_BIG_TYPED_LITERAL == 25
TYPE_BOOLEAN_LITERAL_TRUE == 28
TYPE_BOOLEAN_LITERAL_FALSE == 29
TYPE_FLOAT_LITERAL == 30
TYPE_DOUBLE_LITERAL == 31
TYPE_INTEGER_LITERAL == 32
TYPE_DECIMAL_LITERAL == 33
TYPE_DATE_TIME_LITERAL == 34
TYPE_TIME_LITERAL == 35
TYPE_DATE_LITERAL == 36
TYPE_G_YEAR_MONTH_LITERAL == 37
TYPE_G_YEAR_LITERAL == 38
TYPE_G_MONTH_DAY_LITERAL == 39
TYPE_G_DAY_LITERAL == 40
TYPE_G_MONTH_LITERAL == 41
TYPE_DURATION_LITERAL == 42
TYPE_YEAR_MONTH_DURATION_LITERAL == 43
TYPE_DAY_TIME_DURATION_LITERAL == 44
TYPE_TRIPLE == 48
TYPE_CLASS == 50
TYPE_PROPERTY == 51
\* size_of::<StrHash>(): a StrHash wraps one u128
StrHashSize == 16
\* size of a SmallString: `[0; 16]`
SmallStringSize == 16
DEFAULT_BULK_LOAD_BATCH_SIZE == 1000000

None == <<"None", 0>>

(***************************************************************************)
(* Encoded terms (numeric_encoder::EncodedTerm), as <<variant, payload>>.  *)
(***************************************************************************)
DefaultGraph == <<"DefaultGraph", 0>>
NamedNode(iri_id) == <<"NamedNode", iri_id>>
BooleanLiteral(b) == <<"BooleanLiteral", IF b THEN 1 ELSE 0>>

is_default_graph(t) == t = DefaultGraph

Hashes == 1..MaxHash
\* the terms the modelled callers use in each position of a quad
Subjects == {NamedNode(1)}
Predicates == {NamedNode(MaxHash)}
Objects == {NamedNode(1), BooleanLiteral(TRUE)}
GraphNames == {NamedNode(h + 1) : h \in Hashes}
Terms == {NamedNode(h) : h \in 1..(MaxHash + 1)} \cup {BooleanLiteral(TRUE), BooleanLiteral(FALSE)}

EncodedQuad(s, p, o, g) == [subject |-> s, predicate |-> p, object |-> o, graph_name |-> g]
Quads == {EncodedQuad(s, p, o, g) : s \in Subjects, p \in Predicates,
                                     o \in Objects, g \in GraphNames \cup {DefaultGraph}}

(***************************************************************************)
(* Binary codec.                                                           *)
(***************************************************************************)
\* u128::to_be_bytes / StrHash::to_be_bytes: most significant byte first
RECURSIVE to_be_bytes(_, _)
to_be_bytes(v, width) ==
    IF width = 0 THEN <<>>
    ELSE Append(to_be_bytes(v \div 256, width - 1), v % 256)

RECURSIVE from_be_bytes(_)
from_be_bytes(bytes) ==
    IF bytes = <<>> THEN 0
    ELSE 256 * from_be_bytes(SubSeq(bytes, 1, Len(bytes) - 1)) + bytes[Len(bytes)]

\* i64::from_be_bytes: two's complement
from_be_bytes_signed(bytes) ==
    IF bytes # <<>> /\ bytes[1] >= 128
    THEN -(from_be_bytes([i \in 1..Len(bytes) |-> 255 - bytes[i]]) + 1)
    ELSE from_be_bytes(bytes)

\* SmallString::to_be_bytes: the length, the bytes of the string, zero padding
small_to_be_bytes(str) ==
    <<Len(str)>> \o str \o [i \in 1..(SmallStringSize - 1 - Len(str)) |-> 0]

\* SmallString::from_be_bytes: fails on a length that does not fit and on
\* bytes that are not UTF-8 (here: not ASCII)
small_from_be_bytes(bytes) ==
    IF bytes[1] > SmallStringSize - 1 THEN [ok |-> FALSE, value |-> <<>>]
    ELSE LET str == SubSeq(bytes, 2, bytes[1] + 1)
         IN  IF \E i \in 1..Len(str) : str[i] >= 128 THEN [ok |-> FALSE, value |-> <<>>]
             ELSE [ok |-> TRUE, value |-> str]

\* the payload fields of the term encodings: a SmallString, a signed number,
\* an unsigned number or bit pattern, each with its width in bytes
Small == <<"small", SmallStringSize>>
Hash == <<"be", StrHashSize>>
Be(width) == <<"be", width>>
Signed(width) == <<"signed", width>>

\* write_term, arm by arm: variant matched, tag pushed, and the fields
\* pushed after it in the order they are pushed. A term with two fields
\* holds <<value, language>> or <<value, datatype_id>>, and the language or
\* the datatype is pushed first.
WriteLayout ==
    << <<"NumericalBlankNode", TYPE_NUMERICAL_BLANK_NODE_ID, <<Be(16)>> >>,
       <<"SmallBlankNode", TYPE_SMALL_BLANK_NODE_ID, <<Small>> >>,
       <<"BigBlankNode", TYPE_BIG_BLANK_NODE_ID, <<Hash>> >>,
       <<"SmallStringLiteral", TYPE_SMALL_STRING_LITERAL, <<Small>> >>,
       <<"BigStringLiteral", TYPE_BIG_STRING_LITERAL, <<Hash>> >>,
       <<"SmallSmallLangStringLiteral", TYPE_SMALL_SMALL_LANG_STRING_LITERAL, <<Small, Small>> >>,
       <<"SmallBigLangStringLiteral", TYPE_SMALL_BIG_LANG_STRING_LITERAL, <<Hash, Small>> >>,
       <<"BigSmallLangStringLiteral", TYPE_BIG_SMALL_LANG_STRING_LITERAL, <<Small, Hash>> >>,
       <<"BigBigLangStringLiteral", TYPE_BIG_BIG_LANG_STRING_LITERAL, <<Hash, Hash>> >>,
       <<"SmallTypedLiteral", TYPE_SMALL_TYPED_LITERAL, <<Hash, Small>> >>,
       <<"BigTypedLiteral", TYPE_BIG_TYPED_LITERAL, <<Hash, Hash>> >>,
       <<"FloatLiteral", TYPE_FLOAT_LITERAL, <<Be(4)>> >>,
       <<"DoubleLiteral", TYPE_DOUBLE_LITERAL, <<Be(8)>> >>,
       <<"IntegerLiteral", TYPE_INTEGER_LITERAL, <<Signed(8)>> >>,
       <<"DecimalLiteral", TYPE_DECIMAL_LITERAL, <<Be(16)>> >>,
       <<"DateTimeLiteral", TYPE_DATE_TIME_LITERAL, <<Be(18)>> >>,
       <<"TimeLiteral", TYPE_TIME_LITERAL, <<Be(18)>> >>,
       <<"DateLiteral", TYPE_DATE_LITERAL, <<Be(18)>> >>,
       <<"GYearMonthLiteral", TYPE_G_YEAR_MONTH_LITERAL, <<Be(18)>> >>,
       <<"GYearLiteral", TYPE_G_YEAR_LITERAL, <<Be(18)>> >>,
       <<"GMonthDayLiteral", TYPE_G_MONTH_DAY_LITERAL, <<Be(18)>> >>,
       <<"GDayLiteral", TYPE_G_DAY_LITERAL, <<Be(18)>> >>,
       <<"GMonthLiteral", TYPE_G_MONTH_LITERAL, <<Be(18)>> >>,
       <<"DurationLiteral", TYPE_DURATION_LITERAL, <<Be(24)>> >>,
       <<"YearMonthDurationLiteral", TYPE_YEAR_MONTH_DURATION_LITERAL, <<Be(8)>> >>,
       <<"DayTimeDurationLiteral", TYPE_DAY_TIME_DURATION_LITERAL, <<Be(16)>> >> >>

\* read_term, arm by arm: tag matched, variant built, and the buffers read
\* after the tag in the order they are read, with what each is converted to
ReadLayout ==
    << <<TYPE_NUMERICAL_BLANK_NODE_ID, "NumericalBlankNode", <<Be(16)>> >>,
       <<TYPE_SMALL_BLANK_NODE_ID, "SmallBlankNode", <<Small>> >>,
       <<TYPE_BIG_BLANK_NODE_ID, "BigBlankNode", <<Hash>> >>,
       <<TYPE_SMALL_SMALL_LANG_STRING_LITERAL, "SmallSmallLangStringLiteral", <<Small, Small>> >>,
       <<TYPE_SMALL_BIG_LANG_STRING_LITERAL, "SmallBigLangStringLiteral", <<Hash, Small>> >>,
       <<TYPE_BIG_SMALL_LANG_STRING_LITERAL, "BigSmallLangStringLiteral", <<Small, Hash>> >>,
       <<TYPE_BIG_BIG_LANG_STRING_LITERAL, "BigBigLangStringLiteral", <<Hash, Hash>> >>,
       <<TYPE_SMALL_TYPED_LITERAL, "SmallTypedLiteral", <<Hash, Small>> >>,
       <<TYPE_BIG_TYPED_LITERAL, "BigTypedLiteral", <<Hash, Hash>> >>,
       <<TYPE_SMALL_STRING_LITERAL, "SmallStringLiteral", <<Small>> >>,
       <<TYPE_BIG_STRING_LITERAL, "BigStringLiteral", <<Hash>> >>,
       <<TYPE_FLOAT_LITERAL, "FloatLiteral", <<Be(4)>> >>,
       <<TYPE_DOUBLE_LITERAL, "DoubleLiteral", <<Be(8)>> >>,
       <<TYPE_INTEGER_LITERAL, "IntegerLiteral", <<Signed(8)>> >>,
       <<TYPE_DECIMAL_LITERAL, "DecimalLiteral", <<Be(16)>> >>,
       <<TYPE_DATE_TIME_LITERAL, "DateTimeLiteral", <<Be(18)>> >>,
       <<TYPE_TIME_LITERAL, "TimeLiteral", <<Be(18)>> >>,
       <<TYPE_DATE_LITERAL, "DateLiteral", <<Be(18)>> >>,
       <<TYPE_G_YEAR_MONTH_LITERAL, "GYearMonthLiteral", <<Be(18)>> >>,
       <<TYPE_G_YEAR_LITERAL, "GYearLiteral", <<Be(18)>> >>,
       <<TYPE_G_MONTH_DAY_LITERAL, "GMonthDayLiteral", <<Be(18)>> >>,
       <<TYPE_G_DAY_LITERAL, "GDayLiteral", <<Be(18)>> >>,
       <<TYPE_G_MONTH_LITERAL, "GMonthLiteral", <<Be(18)>> >>,
       <<TYPE_DURATION_LITERAL, "DurationLiteral", <<Be(24)>> >>,
       <<TYPE_YEAR_MONTH_DURATION_LITERAL, "YearMonthDurationLiteral", <<Be(8)>> >>,
       <<TYPE_DAY_TIME_DURATION_LITERAL, "DayTimeDurationLiteral", <<Be(16)>> >> >>

\* the rows of a layout whose first entry is `key`: the arm that matches
arms(layout, key) == SelectSeq(layout, LAMBDA row : row[1] = key)

\* value.to_be_bytes() for the value of a field
field_to_be_bytes(field, value) ==
    IF field[1] = "small" THEN small_to_be_bytes(value) ELSE to_be_bytes(value, field[2])

\* one arm of write_term: the tag, then the fields
write_arm(sink, arm, payload) ==
    IF Len(arm[3]) = 2
    THEN Append(sink, arm[2]) \o field_to_be_bytes(arm[3][1], payload[2])
                              \o field_to_be_bytes(arm[3][2], payload[1])
    ELSE Append(sink, arm[2]) \o field_to_be_bytes(arm[3][1], payload)

RECURSIVE write_term(_, _)
write_term(sink, term) ==
    CASE term[1] = "DefaultGraph" -> sink
      [] term[1] = "NamedNode" ->
            Append(sink, TYPE_NAMED_NODE_ID) \o to_be_bytes(term[2], StrHashSize)
      [] term[1] = "BooleanLiteral" ->
            Append(sink, IF term[2] = 1 THEN TYPE_BOOLEAN_LITERAL_TRUE
                                        ELSE TYPE_BOOLEAN_LITERAL_FALSE)
      [] term[1] = "Triple" ->
            write_term(write_term(write_term(Append(sink, TYPE_TRIPLE), term[2][1]),
                                  term[2][2]), term[2][3])
      [] OTHER -> write_arm(sink, arms(WriteLayout, term[1])[1], term[2])

ReadOk(term, rest) == [ok |-> TRUE, term |-> term, rest |-> rest, err |-> "none"]
\* variant: an unknown type id reads as a term
CorruptionErrorAsTerm == [ok |-> TRUE, term |-> None, rest |-> <<>>, err |-> "none"]
\* "the term buffer has an invalid type id", a malformed SmallString
CorruptionError == [ok |-> FALSE, term |-> None, rest |-> <<>>, err |-> "Corruption"]
\* read_exact on a buffer that is too short
UnexpectedEof == [ok |-> FALSE, term |-> None, rest |-> <<>>, err |-> "UnexpectedEof"]

\* T::from_be_bytes(buffer) for the buffer of a field
field_from_be_bytes(field, bytes) ==
    CASE field[1] = "small" -> small_from_be_bytes(bytes)
      [] field[1] = "signed" -> [ok |-> TRUE, value |-> from_be_bytes_signed(bytes)]
      [] OTHER -> [ok |-> TRUE, value |-> from_be_bytes(bytes)]

\* the term built from the converted buffers
built(variant, values, rest) ==
    IF \E i \in DOMAIN values : ~values[i].ok THEN CorruptionError
    ELSE IF Len(values) = 2 THEN ReadOk(<<variant, <<values[2].value, values[1].value>> >>, rest)
    ELSE ReadOk(<<variant, values[1].value>>, rest)

\* variant: the cursor is left where the first buffer starts
read_arm_not_advancing(matching, body) ==
    IF matching = <<>> THEN CorruptionError
    ELSE IF Len(body) < matching[1][3][1][2] * Len(matching[1][3]) THEN UnexpectedEof
    ELSE built(matching[1][2],
               [i \in DOMAIN matching[1][3] |->
                   field_from_be_bytes(matching[1][3][i],
                       SubSeq(body, (i - 1) * matching[1][3][i][2] + 1,
                              i * matching[1][3][i][2]))],
               body)

\* one arm of read_term: every buffer is read, then converted; no arm
\* matching is the arm `_`. The buffers of an arm with two have one width.
read_arm(matching, body) ==
    IF matching = <<>> THEN CorruptionError
    ELSE IF Len(body) < matching[1][3][1][2] * Len(matching[1][3]) THEN UnexpectedEof
    ELSE built(matching[1][2],
               [i \in DOMAIN matching[1][3] |->
                   field_from_be_bytes(matching[1][3][i],
                       SubSeq(body, (i - 1) * matching[1][3][i][2] + 1,
                              i * matching[1][3][i][2]))],
               SubSeq(body, matching[1][3][1][2] * Len(matching[1][3]) + 1, Len(body)))

RECURSIVE read_term(_)
RECURSIVE read_terms(_, _, _)
RECURSIVE next_term(_, _, _)

\* `n` terms read one after the other with `?` after each
read_terms(buf, n, acc) ==
    IF n = 0 THEN ReadOk(acc, buf) ELSE next_term(read_term(buf), n, acc)
next_term(read, n, acc) ==
    IF read.ok THEN read_terms(read.rest, n - 1, Append(acc, read.term)) ELSE read

\* EncodedTerm::Triple of the subject, predicate and object read
read_triple(read) == IF read.ok THEN ReadOk(<<"Triple", read.term>>, read.rest) ELSE read

\* TermReader::read_term on a cursor over `buf`: the term and the unread rest
read_term(buf) ==
    IF Len(buf) < 1 THEN UnexpectedEof
    ELSE CASE buf[1] = TYPE_NAMED_NODE_ID ->
                IF Len(buf) < 1 + StrHashSize THEN UnexpectedEof
                ELSE ReadOk(NamedNode(from_be_bytes(SubSeq(buf, 2, 1 + StrHashSize))),
                            SubSeq(buf, StrHashSize + 2, Len(buf)))
           [] buf[1] = TYPE_BOOLEAN_LITERAL_TRUE -> ReadOk(BooleanLiteral(TRUE), Tail(buf))
           [] buf[1] = TYPE_BOOLEAN_LITERAL_FALSE -> ReadOk(BooleanLiteral(FALSE), Tail(buf))
           [] buf[1] = TYPE_TRIPLE -> read_triple(read_terms(Tail(buf), 3, <<>>))
           [] OTHER -> read_arm(arms(ReadLayout, buf[1]), Tail(buf))

encode_term(t) == write_term(<<>>, t)
encode_term_pair(t1, t2) == write_term(write_term(<<>>, t1), t2)
encode_term_triple(t1, t2, t3) == write_term(write_term(write_term(<<>>, t1), t2), t3)
encode_term_quad(t1, t2, t3, t4) ==
    write_term(write_term(write_term(write_term(<<>>, t1), t2), t3), t4)

write_spog_quad(sink, q) ==
    write_term(write_term(write_term(write_term(sink, q.subject), q.predicate), q.object), q.graph_name)
write_posg_quad(sink, q) ==
    write_term(write_term(write_term(write_term(sink, q.predicate), q.object), q.subject), q.graph_name)
write_ospg_quad(sink, q) ==
    write_term(write_term(write_term(write_term(sink, q.object), q.subject), q.predicate), q.graph_name)
write_gspo_quad(sink, q) ==
    write_term(write_term(write_term(write_term(sink, q.graph_name), q.subject), q.predicate), q.object)
write_gpos_quad(sink, q) ==
    write_term(write_term(write_term(write_term(sink, q.graph_name), q.predicate), q.object), q.subject)
write_gosp_quad(sink, q) ==
    write_term(write_term(write_term(write_term(sink, q.graph_name), q.object), q.subject), q.predicate)
write_spo_quad(sink, q) ==
    write_term(write_term(write_term(sink, q.subject), q.predicate), q.object)
\* variant: the subject is written before the object
write_pos_quad_as_pso(sink, q) ==
    write_term(write_term(write_term(sink, q.predicate), q.subject), q.object)
write_pos_quad(sink, q) ==
    write_term(write_term(write_term(sink, q.predicate), q.object), q.subject)
write_osp_quad(sink, q) ==
    write_term(write_term(write_term(sink, q.object), q.subject), q.predicate)

\* reads the terms of a key in the order given by `fields`; "d" stands for
\* the default graph, which is not read from the key
RECURSIVE read_fields(_, _, _)
read_fields(buf, fields, acc) ==
    IF fields = <<>> THEN [ok |-> TRUE, quad |-> acc]
    ELSE LET r == read_term(buf)
         IN  IF ~r.ok THEN [ok |-> FALSE, quad |-> acc]
             ELSE read_fields(r.rest, Tail(fields), [acc EXCEPT ![Head(fields)] = r.term])

EmptyQuad == EncodedQuad(None, None, None, DefaultGraph)

\* the terms of a key of each encoding, in the order decode reads them
fields_of(encoding) ==
    CASE encoding = "Spog" -> <<"subject", "predicate", "object", "graph_name">>
      [] encoding = "Posg" -> <<"predicate", "object", "subject", "graph_name">>
      [] encoding = "Ospg" -> <<"object", "subject", "predicate", "graph_name">>
      [] encoding = "Gspo" -> <<"graph_name", "subject", "predicate", "object">>
      [] encoding = "Gpos" -> <<"graph_name", "predicate", "object", "subject">>
      [] encoding = "Gosp" -> <<"graph_name", "object", "subject", "predicate">>
      [] encoding = "Dspo" -> <<"subject", "predicate", "object">>
      [] encoding = "Dpos" -> <<"predicate", "object", "subject">>
      [] encoding = "Dosp" -> <<"object", "subject", "predicate">>

\* QuadEncoding::decode
decode(encoding, buffer) == read_fields(buffer, fields_of(encoding), EmptyQuad)

decode_term(buffer) == read_term(buffer)

(***************************************************************************)
(* State.                                                                  *)
(***************************************************************************)
VARIABLES
    db,       \* committed content of the quad indexes and of graphs: CF name -> set of keys
    id2str,   \* committed content of the id2str CF: set of <<key, value>>
    tx,       \* the transaction of the running Storage::transaction call
    call,     \* the last StorageWriter call of the running closure and its result
    loader,   \* the running StorageBulkLoader::load call: main thread and workers
    default_cf, \* content of the default CF: set of <<key, value>>
    run       \* the running call outside a transaction (codec, open, validate)

vars == <<db, id2str, tx, call, loader, default_cf, run>>

DefaultCFs == {"dspo", "dpos", "dosp"}
NamedCFs == {"spog", "posg", "ospg", "gspo", "gpos", "gosp"}
CFNames == DefaultCFs \cup NamedCFs \cup {"graphs"}
EmptyCFs == [cf \in CFNames |-> {}]

NoCall == [op |-> "none", arg |-> None, ret |-> "none"]
NoRun == [pc |-> "none"]
\* the default CF of a store written by this version: Storage::new
oxversion(version) == <<"oxversion", to_be_bytes(version, 8)>>
LatestVersion == {oxversion(LATEST_STORAGE_VERSION)}
IdleTx == [status |-> "idle", puts |-> EmptyCFs, dels |-> EmptyCFs, nops |-> 0]

(***************************************************************************)
(* The engine's transaction (storage::backend, consumed interface).        *)
(***************************************************************************)
\* what a read through transaction `t` sees of column family `cf`
tx_view(d, t, cf) == (d[cf] \ t.dels[cf]) \cup t.puts[cf]
contains_key_for_update(d, t, cf, key) == key \in tx_view(d, t, cf)
insert_empty(t, cf, key) ==
    [t EXCEPT !.puts[cf] = @ \cup {key}, !.dels[cf] = @ \ {key}]
transaction_remove(t, cf, key) ==
    [t EXCEPT !.dels[cf] = @ \cup {key}, !.puts[cf] = @ \ {key}]
\* commit: every buffered write becomes visible at once
commit(d, t) == [cf \in CFNames |-> tx_view(d, t, cf)]
\* Reader::scan_prefix: the keys of `cf` that start with `prefix`
starts_with(key, prefix) ==
    /\ Len(prefix) <= Len(key)
    /\ SubSeq(key, 1, Len(prefix)) = prefix
scan_prefix(cfs, cf, prefix) == {key \in cfs[cf] : starts_with(key, prefix)}

\* the content a reader of transaction `t` iterates over
reader(d, t) == [cf \in CFNames |-> tx_view(d, t, cf)]

(***************************************************************************)
(* StorageWriter.  A writer state w is [tx, db, id2str]: the transaction   *)
(* of the writer and the database its storage handle reaches directly.    *)
(* Every operation returns the new writer state and the call's result.    *)
(***************************************************************************)
StrOf(hash) == <<"str", hash>>

\* StorageWriter::insert_str: written to the database directly, outside the
\* transaction, and only when the key is absent
insert_str(w, key, value) ==
    IF \E e \in w.id2str : e[1] = to_be_bytes(key, StrHashSize) THEN w
    ELSE [w EXCEPT !.id2str = @ \cup {<<to_be_bytes(key, StrHashSize), value>>}]

\* numeric_encoder::insert_term: one insert_str per string hash of the term
insert_term(w, encoded) ==
    CASE encoded[1] = "NamedNode" -> insert_str(w, encoded[2], StrOf(encoded[2]))
      [] OTHER -> w

\* variant: the string of a graph name is never written
insert_graph_name_skipped(w, encoded) == w

insert_graph_name(w, encoded) ==
    IF is_default_graph(encoded) THEN w ELSE insert_term(w, encoded)

\* the index writes of one insert, in the order of the code
\* variant: a default-graph quad also gets a row in spog
default_keys_and_spog(q) ==
    << <<"dspo", write_spo_quad(<<>>, q)>>,
       <<"dpos", write_pos_quad(<<>>, q)>>,
       <<"dosp", write_osp_quad(<<>>, q)>>,
       <<"spog", write_spog_quad(<<>>, q)>> >>
default_keys(q) ==
    << <<"dspo", write_spo_quad(<<>>, q)>>,
       <<"dpos", write_pos_quad(<<>>, q)>>,
       <<"dosp", write_osp_quad(<<>>, q)>> >>
\* variant: the gpos column family receives the gosp key
named_keys_gpos_as_gosp(q) ==
    << <<"spog", write_spog_quad(<<>>, q)>>,
       <<"posg", write_posg_quad(<<>>, q)>>,
       <<"ospg", write_ospg_quad(<<>>, q)>>,
       <<"gspo", write_gspo_quad(<<>>, q)>>,
       <<"gpos", write_gosp_quad(<<>>, q)>>,
       <<"gosp", write_gosp_quad(<<>>, q)>> >>
named_keys(q) ==
    << <<"spog", write_spog_quad(<<>>, q)>>,
       <<"posg", write_posg_quad(<<>>, q)>>,
       <<"ospg", write_ospg_quad(<<>>, q)>>,
       <<"gspo", write_gspo_quad(<<>>, q)>>,
       <<"gpos", write_gpos_quad(<<>>, q)>>,
       <<"gosp", write_gosp_quad(<<>>, q)>> >>
index_keys(q) == IF is_default_graph(q.graph_name) THEN default_keys(q) ELSE named_keys(q)

RECURSIVE insert_empty_all(_, _)
insert_empty_all(t, keys) ==
    IF keys = <<>> THEN t
    ELSE insert_empty_all(insert_empty(t, Head(keys)[1], Head(keys)[2]), Tail(keys))

RECURSIVE remove_all(_, _)
remove_all(t, keys) ==
    IF keys = <<>> THEN t
    ELSE remove_all(transaction_remove(t, Head(keys)[1], Head(keys)[2]), Tail(keys))

\* ret: "true" / "false" for Ok(bool), "Ok" for Ok(()), "Err" for an error
Result(w, r) == [tx |-> w.tx, db |-> w.db, id2str |-> w.id2str, ret |-> r]
State(r) == [tx |-> r.tx, db |-> r.db, id2str |-> r.id2str]

\* variant: the presence of a named-graph quad is looked up with its spog key
\* in the gspo column family
insert_checking_gspo(w, quad) ==
    IF is_default_graph(quad.graph_name)
    THEN IF contains_key_for_update(w.db, w.tx, "dspo", write_spo_quad(<<>>, quad))
         THEN Result(w, "false")
         ELSE LET w1 == [w EXCEPT !.tx = insert_empty_all(@, default_keys(quad))]
                  w2 == insert_term(insert_term(insert_term(w1, quad.subject),
                                                quad.predicate), quad.object)
              IN  Result(w2, "true")
    ELSE IF contains_key_for_update(w.db, w.tx, "gspo", write_spog_quad(<<>>, quad))
         THEN Result(w, "false")
         ELSE LET w1 == [w EXCEPT !.tx = insert_empty_all(@, named_keys(quad))]
                  w2 == insert_term(insert_term(insert_term(w1, quad.subject),
                                                quad.predicate), quad.object)
                  g  == write_term(<<>>, quad.graph_name)
                  w3 == IF ~contains_key_for_update(w2.db, w2.tx, "graphs", g)
                        THEN insert_graph_name([w2 EXCEPT !.tx = insert_empty(@, "graphs", g)],
                                               quad.graph_name)
                        ELSE w2
              IN  Result(w3, "true")

\* StorageWriter::insert
insert(w, quad) ==
    IF is_default_graph(quad.graph_name)
    THEN IF contains_key_for_update(w.db, w.tx, "dspo", write_spo_quad(<<>>, quad))
         THEN Result(w, "false")
         ELSE LET w1 == [w EXCEPT !.tx = insert_empty_all(@, default_keys(quad))]
                  w2 == insert_term(insert_term(insert_term(w1, quad.subject),
                                                quad.predicate), quad.object)
              IN  Result(w2, "true")
    ELSE IF contains_key_for_update(w.db, w.tx, "spog", write_spog_quad(<<>>, quad))
         THEN Result(w, "false")
         ELSE LET w1 == [w EXCEPT !.tx = insert_empty_all(@, named_keys(quad))]
                  w2 == insert_term(insert_term(insert_term(w1, quad.subject),
                                                quad.predicate), quad.object)
                  g  == write_term(<<>>, quad.graph_name)
                  w3 == IF ~contains_key_for_update(w2.db, w2.tx, "graphs", g)
                        THEN insert_graph_name([w2 EXCEPT !.tx = insert_empty(@, "graphs", g)],
                                               quad.graph_name)
                        ELSE w2
              IN  Result(w3, "true")

\* StorageWriter::insert_named_graph
insert_named_graph(w, graph_name) ==
    LET g == write_term(<<>>, graph_name)
    IN  IF contains_key_for_update(w.db, w.tx, "graphs", g)
        THEN Result(w, "false")
        ELSE Result(insert_term([w EXCEPT !.tx = insert_empty(@, "graphs", g)], graph_name), "true")

\* variant: the rows are removed and true is returned whether or not the
\* quad was there
remove_encoded_always_true(w, quad) ==
    Result([w EXCEPT !.tx = remove_all(@, index_keys(quad))], "true")

\* variant: a successful remove also deletes the string of the subject
remove_encoded_dropping_strings(w, quad) ==
    IF contains_key_for_update(w.db, w.tx, index_keys(quad)[1][1], index_keys(quad)[1][2])
    THEN Result([w EXCEPT !.tx = remove_all(@, index_keys(quad)),
                          !.id2str = {e \in @ : e[1] # to_be_bytes(quad.subject[2], StrHashSize)}],
                "true")
    ELSE Result(w, "false")

\* variant: a successful remove of a named-graph quad also takes the graph
\* name out of graphs
remove_encoded_dropping_graph(w, quad) ==
    IF contains_key_for_update(w.db, w.tx, index_keys(quad)[1][1], index_keys(quad)[1][2])
    THEN LET t1 == remove_all(w.tx, index_keys(quad))
         IN  Result([w EXCEPT !.tx = IF is_default_graph(quad.graph_name) THEN t1
                                     ELSE transaction_remove(t1, "graphs",
                                              write_term(<<>>, quad.graph_name))],
                    "true")
    ELSE Result(w, "false")

\* StorageWriter::remove_encoded
remove_encoded(w, quad) ==
    IF is_default_graph(quad.graph_name)
    THEN IF contains_key_for_update(w.db, w.tx, "dspo", write_spo_quad(<<>>, quad))
         THEN Result([w EXCEPT !.tx = remove_all(@, default_keys(quad))], "true")
         ELSE Result(w, "false")
    ELSE IF contains_key_for_update(w.db, w.tx, "spog", write_spog_quad(<<>>, quad))
         THEN Result([w EXCEPT !.tx = remove_all(@, named_keys(quad))], "true")
         ELSE Result(w, "false")

\* StorageWriter::remove
remove(w, quad) == remove_encoded(w, quad)

(***************************************************************************)
(* StorageReader.  `cfs` is the content the reader sees (CF name -> keys). *)
(* An iterator is modelled by the set of its items, one per row: the       *)
(* column family, the key and the decoded quad.                            *)
(***************************************************************************)
\* StorageReader::inner_quads with DecodingQuadIterator
inner_quads(cfs, cf, prefix, encoding) ==
    {[cf |-> cf, key |-> key, item |-> decode(encoding, key)] :
        key \in scan_prefix(cfs, cf, prefix)}

spog_quads(cfs, prefix) == inner_quads(cfs, "spog", prefix, "Spog")
posg_quads(cfs, prefix) == inner_quads(cfs, "posg", prefix, "Posg")
ospg_quads(cfs, prefix) == inner_quads(cfs, "ospg", prefix, "Ospg")
gspo_quads(cfs, prefix) == inner_quads(cfs, "gspo", prefix, "Gspo")
gpos_quads(cfs, prefix) == inner_quads(cfs, "gpos", prefix, "Gpos")
gosp_quads(cfs, prefix) == inner_quads(cfs, "gosp", prefix, "Gosp")
dspo_quads(cfs, prefix) == inner_quads(cfs, "dspo", prefix, "Dspo")
dpos_quads(cfs, prefix) == inner_quads(cfs, "dpos", prefix, "Dpos")
dosp_quads(cfs, prefix) == inner_quads(cfs, "dosp", prefix, "Dosp")

\* ChainedDecodingQuadIterator::pair: the items of both iterators
pair(first, second) == first \cup second

quads(cfs) == pair(dspo_quads(cfs, <<>>), gspo_quads(cfs, <<>>))
quads_in_named_graph(cfs) == gspo_quads(cfs, <<>>)

quads_for_subject(cfs, s) ==
    pair(dspo_quads(cfs, encode_term(s)), spog_quads(cfs, encode_term(s)))
quads_for_subject_predicate(cfs, s, p) ==
    pair(dspo_quads(cfs, encode_term_pair(s, p)), spog_quads(cfs, encode_term_pair(s, p)))
quads_for_subject_predicate_object(cfs, s, p, o) ==
    pair(dspo_quads(cfs, encode_term_triple(s, p, o)),
         spog_quads(cfs, encode_term_triple(s, p, o)))
\* variant: the prefix is built subject first
quads_for_subject_object_so(cfs, s, o) ==
    pair(dosp_quads(cfs, encode_term_pair(s, o)), ospg_quads(cfs, encode_term_pair(s, o)))
quads_for_subject_object(cfs, s, o) ==
    pair(dosp_quads(cfs, encode_term_pair(o, s)), ospg_quads(cfs, encode_term_pair(o, s)))
quads_for_predicate(cfs, p) ==
    pair(dpos_quads(cfs, encode_term(p)), posg_quads(cfs, encode_term(p)))
quads_for_predicate_object(cfs, p, o) ==
    pair(dpos_quads(cfs, encode_term_pair(p, o)), posg_quads(cfs, encode_term_pair(p, o)))
quads_for_object(cfs, o) ==
    pair(dosp_quads(cfs, encode_term(o)), ospg_quads(cfs, encode_term(o)))

quads_for_graph(cfs, g) ==
    IF is_default_graph(g) THEN dspo_quads(cfs, <<>>)
    ELSE gspo_quads(cfs, encode_term(g))
quads_for_subject_graph(cfs, s, g) ==
    IF is_default_graph(g) THEN dspo_quads(cfs, encode_term(s))
    ELSE gspo_quads(cfs, encode_term_pair(g, s))
quads_for_subject_predicate_graph(cfs, s, p, g) ==
    IF is_default_graph(g) THEN dspo_quads(cfs, encode_term_pair(s, p))
    ELSE gspo_quads(cfs, encode_term_triple(g, s, p))
quads_for_subject_predicate_object_graph(cfs, s, p, o, g) ==
    IF is_default_graph(g) THEN dspo_quads(cfs, encode_term_triple(s, p, o))
    ELSE gspo_quads(cfs, encode_term_quad(g, s, p, o))
quads_for_subject_object_graph(cfs, s, o, g) ==
    IF is_default_graph(g) THEN dosp_quads(cfs, encode_term_pair(o, s))
    ELSE gosp_quads(cfs, encode_term_triple(g, o, s))
quads_for_predicate_graph(cfs, p, g) ==
    IF is_default_graph(g) THEN dpos_quads(cfs, encode_term(p))
    ELSE gpos_quads(cfs, encode_term_pair(g, p))
quads_for_predicate_object_graph(cfs, p, o, g) ==
    IF is_default_graph(g) THEN dpos_quads(cfs, encode_term_pair(p, o))
    ELSE gpos_quads(cfs, encode_term_triple(g, p, o))
quads_for_object_graph(cfs, o, g) ==
    IF is_default_graph(g) THEN dosp_quads(cfs, encode_term(o))
    ELSE gosp_quads(cfs, encode_term_pair(g, o))

\* StorageReader::quads_for_pattern; None is an unbound field
quads_for_pattern(cfs, s, p, o, g) ==
    IF s # None
    THEN IF p # None
         THEN IF o # None
              THEN IF g # None THEN quads_for_subject_predicate_object_graph(cfs, s, p, o, g)
                               ELSE quads_for_subject_predicate_object(cfs, s, p, o)
              ELSE IF g # None THEN quads_for_subject_predicate_graph(cfs, s, p, g)
                               ELSE quads_for_subject_predicate(cfs, s, p)
         ELSE IF o # None
              THEN IF g # None THEN quads_for_subject_object_graph(cfs, s, o, g)
                               ELSE quads_for_subject_object(cfs, s, o)
              ELSE IF g # None THEN quads_for_subject_graph(cfs, s, g)
                               ELSE quads_for_subject(cfs, s)
    ELSE IF p # None
         THEN IF o # None
              THEN IF g # None THEN quads_for_predicate_object_graph(cfs, p, o, g)
                               ELSE quads_for_predicate_object(cfs, p, o)
              ELSE IF g # None THEN quads_for_predicate_graph(cfs, p, g)
                               ELSE quads_for_predicate(cfs, p)
         ELSE IF o # None
              THEN IF g # None THEN quads_for_object_graph(cfs, o, g)
                               ELSE quads_for_object(cfs, o)
              ELSE IF g # None THEN quads_for_graph(cfs, g)
                               ELSE quads(cfs)

\* StorageReader::named_graphs with DecodingGraphIterator
named_graphs(cfs) ==
    {[cf |-> "graphs", key |-> key, item |-> decode_term(key)] : key \in cfs["graphs"]}

\* StorageReader::contains
contains(cfs, quad) ==
    IF is_default_graph(quad.graph_name)
    THEN write_spo_quad(<<>>, quad) \in cfs["dspo"]
    ELSE write_gspo_quad(<<>>, quad) \in cfs["gspo"]

\* variant: only the default graph is counted
len_of_default_graph(cfs) == Cardinality(cfs["dspo"])
\* StorageReader::len
len(cfs) == Cardinality(cfs["gspo"]) + Cardinality(cfs["dspo"])

\* StorageReader::is_empty
is_empty(cfs) == cfs["gspo"] = {} /\ cfs["dspo"] = {}

\* StorageReader::contains_named_graph
contains_named_graph(cfs, graph_name) == encode_term(graph_name) \in cfs["graphs"]

(***************************************************************************)
(* StorageWriter: graph-level operations.                                  *)
(***************************************************************************)
\* `for quad in <iterator> { self.remove_encoded(&quad?)?; }`
RECURSIVE remove_each(_, _)
remove_each(w, items) ==
    IF items = {} THEN w
    ELSE LET it == CHOOSE x \in items : TRUE
             r  == remove_encoded(w, it.item.quad)
         IN  remove_each(State(r), items \ {it})

\* variant: the name of a cleared named graph is removed with its quads
clear_graph_removing_name(w, graph_name) ==
    IF is_default_graph(graph_name)
    THEN Result(remove_each(w, quads_for_graph(reader(w.db, w.tx), DefaultGraph)), "Ok")
    ELSE LET w1 == remove_each(w, quads_for_graph(reader(w.db, w.tx), graph_name))
         IN  Result([w1 EXCEPT !.tx = transaction_remove(@, "graphs",
                                                         write_term(<<>>, graph_name))], "Ok")

\* StorageWriter::clear_graph
clear_graph(w, graph_name) ==
    IF is_default_graph(graph_name)
    THEN Result(remove_each(w, quads_for_graph(reader(w.db, w.tx), DefaultGraph)), "Ok")
    ELSE IF contains_key_for_update(w.db, w.tx, "graphs", write_term(<<>>, graph_name))
         THEN Result(remove_each(w, quads_for_graph(reader(w.db, w.tx), graph_name)), "Ok")
         ELSE Result(w, "Ok")

\* StorageWriter::clear_all_named_graphs
clear_all_named_graphs(w) ==
    Result(remove_each(w, quads_in_named_graph(reader(w.db, w.tx))), "Ok")

\* StorageWriter::clear_all_graphs
clear_all_graphs(w) ==
    Result(remove_each(w, quads(reader(w.db, w.tx))), "Ok")

\* variant: the graph name is removed and the quads of the graph are kept
remove_encoded_named_graph_keeping_quads(w, graph_name) ==
    IF contains_key_for_update(w.db, w.tx, "graphs", write_term(<<>>, graph_name))
    THEN Result([w EXCEPT !.tx = transaction_remove(@, "graphs",
                                                    write_term(<<>>, graph_name))], "true")
    ELSE Result(w, "false")

\* variant: the quads of the graph are removed and the graph name is kept
remove_encoded_named_graph_keeping_name(w, graph_name) ==
    IF contains_key_for_update(w.db, w.tx, "graphs", write_term(<<>>, graph_name))
    THEN Result(remove_each(w, quads_for_graph(reader(w.db, w.tx), graph_name)), "true")
    ELSE Result(w, "false")

\* StorageWriter::remove_encoded_named_graph
remove_encoded_named_graph(w, graph_name) ==
    IF contains_key_for_update(w.db, w.tx, "graphs", write_term(<<>>, graph_name))
    THEN LET w1 == remove_each(w, quads_for_graph(reader(w.db, w.tx), graph_name))
         IN  Result([w1 EXCEPT !.tx = transaction_remove(@, "graphs",
                                                         write_term(<<>>, graph_name))], "true")
    ELSE Result(w, "false")

\* StorageWriter::remove_named_graph
remove_named_graph(w, graph_name) == remove_encoded_named_graph(w, graph_name)

\* `for graph_name in self.reader().named_graphs() { self.remove_encoded_named_graph(..)?; }`
RECURSIVE remove_each_graph(_, _)
remove_each_graph(w, items) ==
    IF items = {} THEN w
    ELSE LET it == CHOOSE x \in items : TRUE
             r  == remove_encoded_named_graph(w, it.item.term)
         IN  remove_each_graph(State(r), items \ {it})

\* variant: the quads of the named graphs are removed and the names are kept
remove_all_named_graphs_keeping_names(w) ==
    Result(remove_each(w, quads_in_named_graph(reader(w.db, w.tx))), "Ok")

\* StorageWriter::remove_all_named_graphs
remove_all_named_graphs(w) ==
    Result(remove_each_graph(w, named_graphs(reader(w.db, w.tx))), "Ok")

\* StorageWriter::clear
clear(w) ==
    LET w1 == remove_each_graph(w, named_graphs(reader(w.db, w.tx)))
    IN  Result(remove_each(w1, quads(reader(w1.db, w1.tx))), "Ok")

(***************************************************************************)
(* FileBulkLoader: one worker of the bulk loader.  Its state L is          *)
(* [id2str, quads, triples, graphs].                                       *)
(***************************************************************************)
NewFileBulkLoader == [id2str |-> {}, quads |-> {}, triples |-> {}, graphs |-> {}]

\* FileBulkLoader::insert_term: `self.id2str.entry(*key).or_insert_with(..)`
\* for every string hash of the term
loader_insert_term(L, encoded) ==
    IF encoded[1] = "NamedNode" /\ ~\E e \in L.id2str : e[1] = encoded[2]
    THEN [L EXCEPT !.id2str = @ \cup {<<encoded[2], StrOf(encoded[2])>>}]
    ELSE L

loader_insert_terms(L, q) ==
    loader_insert_term(loader_insert_term(loader_insert_term(L, q.subject), q.predicate), q.object)

\* FileBulkLoader::encode
RECURSIVE encode(_, _)
encode(L, input) ==
    IF input = <<>> THEN L
    ELSE LET q == Head(input)
             L1 == IF is_default_graph(q.graph_name)
                   THEN IF q \notin L.triples
                        THEN loader_insert_terms([L EXCEPT !.triples = @ \cup {q}], q)
                        ELSE L
                   ELSE IF q \notin L.quads
                        THEN LET La == loader_insert_terms([L EXCEPT !.quads = @ \cup {q}], q)
                             IN  IF q.graph_name \notin La.graphs
                                 THEN loader_insert_term(
                                          [La EXCEPT !.graphs = @ \cup {q.graph_name}],
                                          q.graph_name)
                                 ELSE La
                        ELSE L
         IN  encode(L1, Tail(input))

\* Vec<u8> ordering: lexicographic on the bytes
RECURSIVE bytes_less(_, _)
bytes_less(a, b) ==
    IF a = <<>> THEN b # <<>>
    ELSE IF b = <<>> THEN FALSE
    ELSE IF a[1] # b[1] THEN a[1] < b[1]
    ELSE bytes_less(Tail(a), Tail(b))

\* values.sort_unstable() on keys
RECURSIVE sort_unstable(_)
sort_unstable(keys) ==
    IF keys = {} THEN <<>>
    ELSE LET m == CHOOSE x \in keys : \A y \in keys \ {x} : bytes_less(x, y)
         IN  <<m>> \o sort_unstable(keys \ {m})

\* id2str.sort_unstable() on (key, value) entries with distinct keys
RECURSIVE sort_entries(_)
sort_entries(entries) ==
    IF entries = {} THEN <<>>
    ELSE LET m == CHOOSE x \in entries : \A y \in entries \ {x} : bytes_less(x[1], y[1])
         IN  <<m>> \o sort_entries(entries \ {m})

\* FileBulkLoader::build_sst_for_keys: the file is the sorted sequence of its
\* keys, each with the empty value
build_sst_for_keys(keys) == sort_unstable(keys)

\* variant: no file is built for the graphs column family
save_files_without_graphs(L) ==
    (IF L.id2str # {}
     THEN << <<"id2str", sort_entries({<<to_be_bytes(e[1], StrHashSize), e[2]>> : e \in L.id2str})>> >>
     ELSE <<>>)
    \o
    (IF L.triples # {}
     THEN << <<"dspo", build_sst_for_keys({encode_term_triple(q.subject, q.predicate, q.object) : q \in L.triples})>>,
             <<"dpos", build_sst_for_keys({encode_term_triple(q.predicate, q.object, q.subject) : q \in L.triples})>>,
             <<"dosp", build_sst_for_keys({encode_term_triple(q.object, q.subject, q.predicate) : q \in L.triples})>> >>
     ELSE <<>>)
    \o
    (IF L.quads # {}
     THEN << <<"gspo", build_sst_for_keys({encode_term_quad(q.graph_name, q.subject, q.predicate, q.object) : q \in L.quads})>>,
             <<"gpos", build_sst_for_keys({encode_term_quad(q.graph_name, q.predicate, q.object, q.subject) : q \in L.quads})>>,
             <<"gosp", build_sst_for_keys({encode_term_quad(q.graph_name, q.object, q.subject, q.predicate) : q \in L.quads})>>,
             <<"spog", build_sst_for_keys({encode_term_quad(q.subject, q.predicate, q.object, q.graph_name) : q \in L.quads})>>,
             <<"posg", build_sst_for_keys({encode_term_quad(q.predicate, q.object, q.subject, q.graph_name) : q \in L.quads})>>,
             <<"ospg", build_sst_for_keys({encode_term_quad(q.object, q.subject, q.predicate, q.graph_name) : q \in L.quads})>> >>
     ELSE <<>>)

\* FileBulkLoader::save, up to the ingest call: the list of (CF, file)
save_files(L) ==
    (IF L.id2str # {}
     THEN << <<"id2str", sort_entries({<<to_be_bytes(e[1], StrHashSize), e[2]>> : e \in L.id2str})>> >>
     ELSE <<>>)
    \o
    (IF L.triples # {}
     THEN << <<"dspo", build_sst_for_keys({encode_term_triple(q.subject, q.predicate, q.object) : q \in L.triples})>>,
             <<"dpos", build_sst_for_keys({encode_term_triple(q.predicate, q.object, q.subject) : q \in L.triples})>>,
             <<"dosp", build_sst_for_keys({encode_term_triple(q.object, q.subject, q.predicate) : q \in L.triples})>> >>
     ELSE <<>>)
    \o
    (IF L.quads # {}
     THEN << <<"graphs", build_sst_for_keys({encode_term(g) : g \in L.graphs})>>,
             <<"gspo", build_sst_for_keys({encode_term_quad(q.graph_name, q.subject, q.predicate, q.object) : q \in L.quads})>>,
             <<"gpos", build_sst_for_keys({encode_term_quad(q.graph_name, q.predicate, q.object, q.subject) : q \in L.quads})>>,
             <<"gosp", build_sst_for_keys({encode_term_quad(q.graph_name, q.object, q.subject, q.predicate) : q \in L.quads})>>,
             <<"spog", build_sst_for_keys({encode_term_quad(q.subject, q.predicate, q.object, q.graph_name) : q \in L.quads})>>,
             <<"posg", build_sst_for_keys({encode_term_quad(q.predicate, q.object, q.subject, q.graph_name) : q \in L.quads})>>,
             <<"ospg", build_sst_for_keys({encode_term_quad(q.object, q.subject, q.predicate, q.graph_name) : q \in L.quads})>> >>
     ELSE <<>>)

Range(seq) == {seq[i] : i \in 1..Len(seq)}

\* Db::insert_stt_files: every file of the list is ingested in one call; a
\* key that exists already keeps one row, with the value of the file
RECURSIVE insert_stt_files(_, _)
insert_stt_files(store, to_load) ==
    IF to_load = <<>> THEN store
    ELSE LET cf == Head(to_load)[1]
             file == Head(to_load)[2]
             next == IF cf = "id2str"
                     THEN [store EXCEPT !.id2str =
                              {e \in @ : \A n \in Range(file) : n[1] # e[1]} \cup Range(file)]
                     ELSE [store EXCEPT !.db[cf] = @ \cup Range(file)]
         IN  insert_stt_files(next, Tail(to_load))

\* FileBulkLoader::save
save(store, L) == insert_stt_files(store, save_files(L))

\* FileBulkLoader::load, without the progress counter: the store afterwards
file_bulk_load(store, input) == save(store, encode(NewFileBulkLoader, input))

\* the number FileBulkLoader::load adds to the progress counter
load_size(input) ==
    LET L == encode(NewFileBulkLoader, input)
    IN  Cardinality(L.triples) + Cardinality(L.quads)

(***************************************************************************)
(* Failing calls: the engine returns an error on the (k+1)-th index write  *)
(* of the call, and the `?` of the writer returns it to the closure.       *)
(***************************************************************************)
Prefix(seq, k) == SubSeq(seq, 1, k)

\* the fallible steps of StorageWriter::insert for an absent quad, in the
\* order of the code: the index writes, the strings of subject, predicate
\* and object and, for a graph name that is not in graphs, its row and string
insert_steps(w, quad) ==
    LET keys == index_keys(quad)
    IN
    [i \in 1..Len(keys) |-> <<"insert_empty", keys[i][1], keys[i][2]>>]
    \o << <<"insert_term", quad.subject>>, <<"insert_term", quad.predicate>>,
          <<"insert_term", quad.object>> >>
    \o (IF ~is_default_graph(quad.graph_name)
           /\ ~contains_key_for_update(w.db, w.tx, "graphs", write_term(<<>>, quad.graph_name))
        THEN << <<"insert_empty", "graphs", write_term(<<>>, quad.graph_name)>>,
                <<"insert_graph_name", quad.graph_name>> >>
        ELSE <<>>)

RECURSIVE run_steps(_, _)
run_steps(w, steps) ==
    IF steps = <<>> THEN w
    ELSE LET st == Head(steps)
             w1 == CASE st[1] = "insert_empty" -> [w EXCEPT !.tx = insert_empty(@, st[2], st[3])]
                     [] st[1] = "insert_term" -> insert_term(w, st[2])
                     [] st[1] = "insert_graph_name" -> insert_graph_name(w, st[2])
         IN  run_steps(w1, Tail(steps))

\* variant: the index writes made before the failure go to the database
\* directly
insert_failing_direct(w, quad, k) ==
    LET keys == Prefix(index_keys(quad), IF k < Len(index_keys(quad)) THEN k
                                         ELSE Len(index_keys(quad)))
    IN  Result([w EXCEPT !.db = [cf \in CFNames |->
                                    @[cf] \cup {keys[i][2] : i \in {j \in 1..Len(keys) : keys[j][1] = cf}}]],
               "Err")

\* StorageWriter::insert of an absent quad, the step number k+1 failing
insert_failing(w, quad, k) ==
    Result(run_steps(w, Prefix(insert_steps(w, quad), k)), "Err")

\* StorageWriter::remove_encoded, the write number k+1 failing
remove_failing(w, quad, k) ==
    Result([w EXCEPT !.tx = remove_all(@, Prefix(index_keys(quad), k))], "Err")

(***************************************************************************)
(* Storage::transaction: the closure makes writer calls on a fresh         *)
(* transaction; the transaction commits when the closure returns Ok and    *)
(* is rolled back when it returns an error.                                *)
(***************************************************************************)
Writer == [tx |-> tx, db |-> db, id2str |-> id2str]
NoLoader == [pc |-> "none"]
\* the batches a single FileBulkLoader is given
Batches == {<<q>> : q \in Quads} \cup {<<q1, q2>> : q1 \in Quads, q2 \in Quads}
ViewNow == reader(db, tx)
Rows(cfs) == Cardinality(cfs["dspo"]) + Cardinality(cfs["spog"])
CanCall == tx.status = "active" /\ tx.nops < MaxOps

\* the effect of one writer call with result r on the state
Called(op, arg, r) ==
    /\ tx' = [r.tx EXCEPT !.nops = @ + 1,
                          !.status = IF r.ret = "Err" THEN "failed" ELSE @]
    /\ db' = r.db
    /\ id2str' = r.id2str
    /\ call' = [op |-> op, arg |-> arg, ret |-> r.ret]
    /\ UNCHANGED <<loader, default_cf, run>>

Init ==
    /\ db = EmptyCFs
    /\ id2str = {}
    /\ tx = IdleTx
    /\ call = NoCall
    /\ loader = NoLoader
    /\ default_cf = LatestVersion
    /\ run = NoRun

Begin ==
    /\ tx.status = "idle"
    /\ tx' = [IdleTx EXCEPT !.status = "active"]
    /\ call' = NoCall
    /\ UNCHANGED <<db, id2str, loader, default_cf, run>>

Insert(q) ==
    /\ CanCall
    /\ contains(ViewNow, q) \/ Rows(ViewNow) < MaxRows
    /\ Called("insert", q, insert(Writer, q))

InsertFail(q, k) ==
    /\ CanCall
    /\ ~contains(ViewNow, q) /\ Rows(ViewNow) < MaxRows
    /\ k < Len(insert_steps(Writer, q))
    /\ Called("insert", q, insert_failing(Writer, q, k))

InsertNamedGraph(g) ==
    /\ CanCall
    /\ Called("insert_named_graph", g, insert_named_graph(Writer, g))

Remove(q) ==
    /\ CanCall
    /\ Called("remove", q, remove(Writer, q))

RemoveFail(q, k) ==
    /\ CanCall
    /\ contains(ViewNow, q)
    /\ Called("remove", q, remove_failing(Writer, q, k))

ClearGraph(g) ==
    /\ CanCall
    /\ Called("clear_graph", g, clear_graph(Writer, g))

ClearAllNamedGraphs ==
    /\ CanCall
    /\ Called("clear_all_named_graphs", None, clear_all_named_graphs(Writer))

ClearAllGraphs ==
    /\ CanCall
    /\ Called("clear_all_graphs", None, clear_all_graphs(Writer))

RemoveNamedGraph(g) ==
    /\ CanCall
    /\ Called("remove_named_graph", g, remove_named_graph(Writer, g))

RemoveAllNamedGraphs ==
    /\ CanCall
    /\ Called("remove_all_named_graphs", None, remove_all_named_graphs(Writer))

Clear ==
    /\ CanCall
    /\ Called("clear", None, clear(Writer))

\* the closure returned Ok: the engine commits
Commit ==
    /\ tx.status = "active"
    /\ db' = commit(db, tx)
    /\ tx' = IdleTx
    /\ call' = NoCall
    /\ UNCHANGED <<id2str, loader, default_cf, run>>

\* the closure returned an error (its own, or that of a failed call): rollback
Abort ==
    /\ tx.status \in {"active", "failed"}
    /\ tx' = IdleTx
    /\ call' = NoCall
    /\ UNCHANGED <<db, id2str, loader, default_cf, run>>

\* one FileBulkLoader::load of a batch, while no transaction runs
BulkLoad(batch) ==
    /\ tx.status = "idle"
    /\ LET store == file_bulk_load([db |-> db, id2str |-> id2str], batch)
       IN  /\ Rows(store.db) <= MaxRows
           /\ db' = store.db
           /\ id2str' = store.id2str
    /\ UNCHANGED <<tx, call, loader, default_cf, run>>

Next ==
    \/ Begin
    \/ \E q \in Quads : Insert(q)
    \/ \E q \in Quads : \E k \in 0..(Len(named_keys(q)) + 4) : InsertFail(q, k)
    \/ \E g \in GraphNames : InsertNamedGraph(g)
    \/ \E q \in Quads : Remove(q)
    \/ \E q \in Quads : \E k \in 0..(Len(index_keys(q)) - 1) : RemoveFail(q, k)
    \/ \E g \in GraphNames \cup {DefaultGraph} : ClearGraph(g)
    \/ ClearAllNamedGraphs
    \/ ClearAllGraphs
    \/ \E g \in GraphNames : RemoveNamedGraph(g)
    \/ RemoveAllNamedGraphs
    \/ Clear
    \/ Commit
    \/ Abort
    \/ \E batch \in Batches : BulkLoad(batch)

Spec == Init /\ [][Next]_vars

(***************************************************************************)
(* StorageBulkLoader::load.  The main thread reads the input, hands every  *)
(* full buffer to a new worker thread, and joins the workers; a worker     *)
(* runs FileBulkLoader::load on its batch.  loader is                      *)
(*   pc, ret      position of the main thread, and where spawn returns to  *)
(*   input        the quads not read yet                                   *)
(*   buffer       the quads read and not handed to a worker                *)
(*   threads      the VecDeque of join handles: indexes into workers       *)
(*   workers      one [state, batch] per spawned thread                    *)
(*   done, displayed, hooks   done_counter, done_and_displayed_counter     *)
(*                and the values the progress hooks were called with       *)
(*   result       what load returned                                       *)
(* quads0 and store0 keep the input and the store the call started from.   *)
(* batch_size is scaled down: the code takes it from the memory of the     *)
(* machine.                                                                *)
(***************************************************************************)
Store == [db |-> db, id2str |-> id2str]

\* Storage::transaction(|mut w| w.insert(q)) for every quad of the input
RECURSIVE iterated_insert(_, _)
iterated_insert(store, input) ==
    IF input = <<>> THEN store
    ELSE LET r == insert([tx |-> [IdleTx EXCEPT !.status = "active"],
                          db |-> store.db, id2str |-> store.id2str], Head(input))
         IN  iterated_insert([db |-> commit(r.db, r.tx), id2str |-> r.id2str], Tail(input))

BulkQuads == {q \in Quads : q.graph_name \in {DefaultGraph, NamedNode(MaxHash + 1)}}
RECURSIVE SeqsUpTo(_, _)
SeqsUpTo(S, n) ==
    IF n = 0 THEN {<<>>}
    ELSE LET shorter == SeqsUpTo(S, n - 1)
         IN  shorter \cup {Append(sq, x) : sq \in shorter, x \in S}
Inputs == SeqsUpTo(BulkQuads, MaxInput)
InitialStores ==
    {iterated_insert([db |-> EmptyCFs, id2str |-> {}], sq) :
        sq \in {<<>>} \cup {<<q>> : q \in {b \in BulkQuads : ~is_default_graph(b.graph_name)}}}

Max(a, b) == IF a >= b THEN a ELSE b

\* StorageBulkLoader::on_possible_progress
on_possible_progress(l) ==
    LET new_counter == l.done
        display_step == DEFAULT_BULK_LOAD_BATCH_SIZE
    IN  [l EXCEPT !.done = Max(l.done, l.displayed),
                  !.hooks = IF new_counter % display_step > l.displayed % display_step
                            THEN Append(@, new_counter) ELSE @,
                  !.displayed = new_counter]

InitBulk ==
    /\ \E store \in InitialStores : db = store.db /\ id2str = store.id2str
    /\ tx = IdleTx
    /\ call = NoCall
    /\ \E input \in Inputs, batch_size \in 1..MaxBatch :
          loader = [pc |-> "read", ret |-> "read", input |-> input, buffer |-> <<>>,
                    threads |-> <<>>, workers |-> <<>>,
                    done |-> 0, displayed |-> 0, hooks |-> <<>>, result |-> "none",
                    num_threads |-> Max(NumThreadsOption, 2), batch_size |-> batch_size,
                    quads0 |-> input, store0 |-> [db |-> db, id2str |-> id2str]]
    /\ default_cf = LatestVersion
    /\ run = NoRun

\* `for quad in quads { buffer.push(quad); if buffer.len() >= batch_size {..} }`
ReadQuad ==
    /\ loader.pc = "read" /\ loader.input # <<>>
    /\ LET buffer == Append(loader.buffer, Head(loader.input))
       IN  loader' = [loader EXCEPT !.input = Tail(@), !.buffer = buffer,
                                    !.ret = "read",
                                    !.pc = IF Len(buffer) >= loader.batch_size
                                           THEN "spawn" ELSE "read"]
    /\ UNCHANGED <<db, id2str, tx, call, default_cf, run>>

\* the input is exhausted: the last spawn_load_thread call, whatever the buffer
EndOfInput ==
    /\ loader.pc = "read" /\ loader.input = <<>>
    /\ loader' = [loader EXCEPT !.pc = "spawn", !.ret = "join"]
    /\ UNCHANGED <<db, id2str, tx, call, default_cf, run>>

\* variant: the length of the queue is not tested
SpawnProgress_without_join ==
    /\ loader.pc = "spawn"
    /\ loader' = [on_possible_progress(loader) EXCEPT !.pc = "spawn_push"]
    /\ UNCHANGED <<db, id2str, tx, call, default_cf, run>>
\* spawn_load_thread: the first on_possible_progress and the test of threads.len()
SpawnProgress ==
    /\ loader.pc = "spawn"
    /\ loader' = [on_possible_progress(loader) EXCEPT
                     !.pc = IF Len(loader.threads) >= loader.num_threads
                            THEN "spawn_join" ELSE "spawn_push"]
    /\ UNCHANGED <<db, id2str, tx, call, default_cf, run>>

\* spawn_load_thread: threads.pop_front() and thread.join().unwrap()?
JoinOldest ==
    /\ loader.pc = "spawn_join"
    /\ LET thread == Head(loader.threads)
       IN  /\ loader.workers[thread].state \in {"finished", "failed"}
           /\ loader' = IF loader.workers[thread].state = "failed"
                        THEN [loader EXCEPT !.threads = Tail(@), !.pc = "done",
                                            !.result = "Err"]
                        ELSE [loader EXCEPT !.threads = Tail(@), !.pc = "spawn_joined"]
    /\ UNCHANGED <<db, id2str, tx, call, default_cf, run>>

\* spawn_load_thread: on_possible_progress after the join
JoinedProgress ==
    /\ loader.pc = "spawn_joined"
    /\ loader' = [on_possible_progress(loader) EXCEPT !.pc = "spawn_push"]
    /\ UNCHANGED <<db, id2str, tx, call, default_cf, run>>

\* spawn_load_thread: take(buffer) and threads.push_back(spawn(..))
SpawnThread ==
    /\ loader.pc = "spawn_push"
    /\ loader' = [loader EXCEPT
                     !.workers = Append(@, [state |-> "running", batch |-> loader.buffer]),
                     !.threads = Append(@, Len(loader.workers) + 1),
                     !.buffer = <<>>,
                     !.pc = "spawn_spawned"]
    /\ UNCHANGED <<db, id2str, tx, call, default_cf, run>>

\* spawn_load_thread: the last on_possible_progress, and the return
SpawnedProgress ==
    /\ loader.pc = "spawn_spawned"
    /\ loader' = [on_possible_progress(loader) EXCEPT !.pc = loader.ret]
    /\ UNCHANGED <<db, id2str, tx, call, default_cf, run>>

\* variant: the result of the joined thread is dropped
JoinNext_ignoring_error ==
    /\ loader.pc = "join" /\ loader.threads # <<>>
    /\ loader.workers[Head(loader.threads)].state \in {"finished", "failed"}
    /\ loader' = [loader EXCEPT !.threads = Tail(@), !.pc = "join_joined"]
    /\ UNCHANGED <<db, id2str, tx, call, default_cf, run>>
\* `for thread in threads { thread.join().unwrap()?; .. }`
JoinNext ==
    /\ loader.pc = "join" /\ loader.threads # <<>>
    /\ LET thread == Head(loader.threads)
       IN  /\ loader.workers[thread].state \in {"finished", "failed"}
           /\ loader' = IF loader.workers[thread].state = "failed"
                        THEN [loader EXCEPT !.threads = Tail(@), !.pc = "done",
                                            !.result = "Err"]
                        ELSE [loader EXCEPT !.threads = Tail(@), !.pc = "join_joined"]
    /\ UNCHANGED <<db, id2str, tx, call, default_cf, run>>

JoinProgress ==
    /\ loader.pc = "join_joined"
    /\ loader' = [on_possible_progress(loader) EXCEPT !.pc = "join"]
    /\ UNCHANGED <<db, id2str, tx, call, default_cf, run>>

\* variant: Ok(()) without the loop over the threads
LoadReturns_without_joining ==
    /\ loader.pc = "join"
    /\ loader' = [loader EXCEPT !.pc = "done", !.result = "Ok"]
    /\ UNCHANGED <<db, id2str, tx, call, default_cf, run>>
\* every thread is joined: Ok(())
LoadReturns ==
    /\ loader.pc = "join" /\ loader.threads = <<>>
    /\ loader' = [loader EXCEPT !.pc = "done", !.result = "Ok"]
    /\ UNCHANGED <<db, id2str, tx, call, default_cf, run>>

\* a worker: FileBulkLoader::load up to and including save()
WorkerSave(i) ==
    /\ loader.workers[i].state = "running"
    /\ LET store == file_bulk_load(Store, loader.workers[i].batch)
       IN  db' = store.db /\ id2str' = store.id2str
    /\ loader' = [loader EXCEPT !.workers[i].state = "saved"]
    /\ UNCHANGED <<tx, call, default_cf, run>>

\* a worker: counter.fetch_add(size) and the end of the thread
WorkerCount(i) ==
    /\ loader.workers[i].state = "saved"
    /\ loader' = [loader EXCEPT !.workers[i].state = "finished",
                                !.done = @ + load_size(loader.workers[i].batch)]
    /\ UNCHANGED <<db, id2str, tx, call, default_cf, run>>

\* a worker: encode or save returns an error, nothing is ingested
WorkerFail(i) ==
    /\ loader.workers[i].state = "running"
    /\ loader' = [loader EXCEPT !.workers[i].state = "failed"]
    /\ UNCHANGED <<db, id2str, tx, call, default_cf, run>>

NextBulk ==
    \/ ReadQuad
    \/ EndOfInput
    \/ SpawnProgress
    \/ JoinOldest
    \/ JoinedProgress
    \/ SpawnThread
    \/ SpawnedProgress
    \/ JoinNext
    \/ JoinProgress
    \/ LoadReturns
    \/ \E i \in 1..Len(loader.workers) : WorkerSave(i)
    \/ \E i \in 1..Len(loader.workers) : WorkerCount(i)
    \/ \E i \in 1..Len(loader.workers) : WorkerFail(i)

SpecBulk == InitBulk /\ [][NextBulk]_vars

\* the loads whose termination is checked: on an empty store, of one quad
\* of the default graph and one quad of a named graph in every order
FairQuads == {q \in BulkQuads : q.object = NamedNode(1)}
InitBulkFair ==
    /\ db = EmptyCFs
    /\ id2str = {}
    /\ tx = IdleTx
    /\ call = NoCall
    /\ \E input \in SeqsUpTo(FairQuads, MaxInput), batch_size \in 1..MaxBatch :
          loader = [pc |-> "read", ret |-> "read", input |-> input, buffer |-> <<>>,
                    threads |-> <<>>, workers |-> <<>>,
                    done |-> 0, displayed |-> 0, hooks |-> <<>>, result |-> "none",
                    num_threads |-> Max(NumThreadsOption, 2), batch_size |-> batch_size,
                    quads0 |-> input, store0 |-> [db |-> db, id2str |-> id2str]]
    /\ default_cf = LatestVersion
    /\ run = NoRun

\* the steps of the thread that called load
MainThread ==
    \/ ReadQuad \/ EndOfInput \/ SpawnProgress \/ JoinOldest \/ JoinedProgress
    \/ SpawnThread \/ SpawnedProgress \/ JoinNext \/ JoinProgress \/ LoadReturns
\* the steps that end what worker i is doing; a worker that runs can fail
\* exactly when it can save
WorkerEnds(i) == i \in DOMAIN loader.workers /\ (WorkerFail(i) \/ WorkerCount(i))

\* the same load on a machine that runs every thread that can run: the main
\* thread and the workers are operating system threads, and none of them
\* waits for anything but a join. No worker stays in encode and save for
\* ever: it saves or it fails.
SpecBulkFair ==
    /\ InitBulkFair /\ [][NextBulk]_vars
    /\ WF_vars(MainThread)
    /\ \A i \in 1..(MaxInput + 1) : WF_vars(WorkerEnds(i))


(***************************************************************************)
(* The progress counter of a bulk load on its own: the workers add the     *)
(* sizes of their batches to done_counter, the main thread observes it in  *)
(* on_possible_progress.  The sizes are those of batches of the size the   *)
(* code works with.                                                        *)
(***************************************************************************)
\* what a worker adds: triples.len() + quads.len() of its batch
ProgressSizes == {400000, 600000, DEFAULT_BULK_LOAD_BATCH_SIZE - 1}

InitProgress ==
    /\ db = EmptyCFs
    /\ id2str = {}
    /\ tx = IdleTx
    /\ call = NoCall
    /\ loader = [pc |-> "progress", done |-> 0, displayed |-> 0, hooks |-> <<>>]
    /\ default_cf = LatestVersion
    /\ run = NoRun

\* FileBulkLoader::load: counter.fetch_add(size)
FetchAdd ==
    /\ loader.pc = "progress"
    /\ \E size \in ProgressSizes :
          /\ loader.done + size <= MaxProgress * DEFAULT_BULK_LOAD_BATCH_SIZE
          /\ loader' = [loader EXCEPT !.done = @ + size]
    /\ UNCHANGED <<db, id2str, tx, call, default_cf, run>>

\* one call of on_possible_progress by the main thread
Observe ==
    /\ loader.pc = "progress"
    /\ loader' = on_possible_progress(loader)
    /\ UNCHANGED <<db, id2str, tx, call, default_cf, run>>

NextProgress ==
    \/ FetchAdd
    \/ Observe

SpecProgress == InitProgress /\ [][NextProgress]_vars

(***************************************************************************)
(* The codec applied to terms, quads and raw buffers:                      *)
(* encode_term / decode_term, write_*_quad / QuadEncoding::decode.         *)
(***************************************************************************)
Triple(subject, predicate, object) == <<"Triple", <<subject, predicate, object>> >>

\* SmallString values: empty, one byte, the longest that fits
SmallStrings == {<<>>, <<97>>, <<97, 98>>, [i \in 1..(SmallStringSize - 1) |-> 97 + i]}
\* payloads of the fixed-width variants (bit patterns; IntegerLiteral is signed)
Numbers == 0..MaxHash
Payloads(kind) == IF kind = "small" THEN SmallStrings ELSE Numbers

\* the terms without inner terms
FlatTerms ==
    {DefaultGraph, BooleanLiteral(TRUE), BooleanLiteral(FALSE)}
    \cup {NamedNode(h) : h \in Numbers}
    \cup {<<"IntegerLiteral", -v>> : v \in 1..MaxHash}
    \cup UNION {{<<WriteLayout[i][1], v>> : v \in Payloads(WriteLayout[i][3][1][1])} :
                 i \in {j \in DOMAIN WriteLayout : Len(WriteLayout[j][3]) = 1}}
    \cup UNION {{<<WriteLayout[i][1], <<value, other>> >> :
                    value \in Payloads(WriteLayout[i][3][2][1]),
                    other \in Payloads(WriteLayout[i][3][1][1])} :
                 i \in {j \in DOMAIN WriteLayout : Len(WriteLayout[j][3]) = 2}}

\* a quoted triple nested `depth` times
RECURSIVE Nested(_)
Nested(depth) ==
    IF depth = 0 THEN NamedNode(1)
    ELSE Triple(NamedNode(1), NamedNode(MaxHash), Nested(depth - 1))

TripleParts ==
    {NamedNode(1), BooleanLiteral(TRUE), <<"SmallStringLiteral", <<97>> >>,
     <<"BigSmallLangStringLiteral", <<1, <<97>> >> >>}
    \cup {Nested(depth) : depth \in 1..(MaxDepth - 1)}

\* the flat terms, quoted triples, and quoted triples that hold the default graph
CodecTerms ==
    FlatTerms
    \cup {Triple(s, p, o) : s \in TripleParts, p \in TripleParts, o \in TripleParts}
    \cup {Triple(s, p, DefaultGraph) : s \in TripleParts, p \in TripleParts}
    \cup {Triple(DefaultGraph, BooleanLiteral(TRUE), BooleanLiteral(FALSE)),
          Triple(NamedNode(1), NamedNode(1), Triple(NamedNode(1), NamedNode(1), DefaultGraph))}

\* does the term hold the default graph, at any depth
RECURSIVE has_default_graph(_)
has_default_graph(term) ==
    \/ is_default_graph(term)
    \/ /\ term[1] = "Triple"
       /\ \E i \in 1..3 : has_default_graph(term[2][i])

QuadEncodings == {"Spog", "Posg", "Ospg", "Gspo", "Gpos", "Gosp", "Dspo", "Dpos", "Dosp"}

CodecQuads ==
    {EncodedQuad(s, p, o, g) :
        s \in {NamedNode(1), <<"SmallBlankNode", <<97>> >>, Nested(1)},
        p \in {NamedNode(1), NamedNode(MaxHash)},
        o \in {NamedNode(1), BooleanLiteral(FALSE), <<"IntegerLiteral", -1>>,
               <<"DateLiteral", 1>>, <<"SmallTypedLiteral", <<(<<97>>), 1>> >>, Nested(1)},
        g \in {DefaultGraph, NamedNode(MaxHash), <<"NumericalBlankNode", 1>>,
               <<"SmallBlankNode", <<97, 98>> >>}}

\* what follows the first byte of a raw buffer: nothing, zeroes of several
\* lengths, a SmallString with a length that does not fit, one that is not UTF-8
Tails == {[i \in 1..n |-> 0] : n \in {0, 4, 16, 32}}
SmallTails ==
    {[i \in 1..SmallStringSize |-> IF i = 1 THEN SmallStringSize ELSE 0],
     [i \in 1..SmallStringSize |-> IF i = 1 THEN 1 ELSE IF i = 2 THEN 200 ELSE 0]}
\* the tags after which read_term converts the first buffer to a number
NumberTags ==
    {TYPE_NAMED_NODE_ID}
    \cup {ReadLayout[i][1] : i \in {j \in DOMAIN ReadLayout : ReadLayout[j][3][1][1] # "small"}}
CodecBuffers ==
    {<<tag>> \o tail : tag \in 0..255, tail \in Tails}
    \cup {<<tag>> \o tail : tag \in (0..255) \ NumberTags, tail \in SmallTails}

CodecRun(pc, op, term, quad, encoding, bytes, ret) ==
    [pc |-> pc, op |-> op, term |-> term, quad |-> quad, encoding |-> encoding,
     bytes |-> bytes, ret |-> ret]

InitCodec ==
    /\ db = EmptyCFs
    /\ id2str = {}
    /\ tx = IdleTx
    /\ call = NoCall
    /\ loader = NoLoader
    /\ default_cf = LatestVersion
    /\ \/ \E term \in CodecTerms :
             run = CodecRun("term", "none", term, EmptyQuad, "none", <<>>, None)
       \/ \E quad \in CodecQuads, encoding \in QuadEncodings :
             run = CodecRun("quad", "none", None, quad, encoding, <<>>, None)
       \/ \E buffer \in CodecBuffers :
             run = CodecRun("buffer", "none", None, EmptyQuad, "none", buffer, None)

\* the writer QuadEncoding `encoding` is decoded from
write_quad(encoding, q) ==
    CASE encoding = "Spog" -> write_spog_quad(<<>>, q)
      [] encoding = "Posg" -> write_posg_quad(<<>>, q)
      [] encoding = "Ospg" -> write_ospg_quad(<<>>, q)
      [] encoding = "Gspo" -> write_gspo_quad(<<>>, q)
      [] encoding = "Gpos" -> write_gpos_quad(<<>>, q)
      [] encoding = "Gosp" -> write_gosp_quad(<<>>, q)
      [] encoding = "Dspo" -> write_spo_quad(<<>>, q)
      [] encoding = "Dpos" -> write_pos_quad(<<>>, q)
      [] encoding = "Dosp" -> write_osp_quad(<<>>, q)

EncodeTerm ==
    /\ run.pc = "term"
    /\ run' = [run EXCEPT !.pc = "buffer", !.op = "encode_term",
                          !.bytes = encode_term(run.term)]
    /\ UNCHANGED <<db, id2str, tx, call, loader, default_cf>>

DecodeTerm ==
    /\ run.pc = "buffer"
    /\ run' = [run EXCEPT !.pc = "done",
                          !.op = IF run.op = "encode_term" THEN "round_trip" ELSE "decode_term",
                          !.ret = decode_term(run.bytes)]
    /\ UNCHANGED <<db, id2str, tx, call, loader, default_cf>>

WriteQuad ==
    /\ run.pc = "quad"
    /\ run' = [run EXCEPT !.pc = "key", !.op = "write_quad",
                          !.bytes = write_quad(run.encoding, run.quad)]
    /\ UNCHANGED <<db, id2str, tx, call, loader, default_cf>>

Decode ==
    /\ run.pc = "key"
    /\ run' = [run EXCEPT !.pc = "done", !.op = "decode",
                          !.ret = decode(run.encoding, run.bytes)]
    /\ UNCHANGED <<db, id2str, tx, call, loader, default_cf>>

NextCodec ==
    \/ EncodeTerm
    \/ DecodeTerm
    \/ WriteQuad
    \/ Decode

SpecCodec == InitCodec /\ [][NextCodec]_vars

(***************************************************************************)
(* Storage::open: setup and migrate.  The stored database is db with       *)
(* default_cf; every engine call of migrate can fail.                      *)
(***************************************************************************)
\* Db::get on the default column family
get(cf, key) ==
    IF \E e \in cf : e[1] = key
    THEN <<"Some", (CHOOSE e \in cf : e[1] = key)[2]>>
    ELSE None

\* Db::insert on the default column family
db_insert(cf, key, value) == {e \in cf : e[1] # key} \cup {<<key, value>>}

\* Storage::update_version
update_version(cf, version) == db_insert(cf, "oxversion", to_be_bytes(version, 8))

\* variant: a store without version is left without version
ensure_version_without_write(cf) ==
    LET version == get(cf, "oxversion")
    IN  IF version # None
        THEN [version |-> from_be_bytes(version[2]), default_cf |-> cf]
        ELSE [version |-> LATEST_STORAGE_VERSION, default_cf |-> cf]

\* Storage::ensure_version: the version and the default column family after it
ensure_version(cf) ==
    LET version == get(cf, "oxversion")
    IN  IF version # None
        THEN [version |-> from_be_bytes(version[2]), default_cf |-> cf]
        ELSE [version |-> LATEST_STORAGE_VERSION,
              default_cf |-> update_version(cf, LATEST_STORAGE_VERSION)]

\* variant: only the names that are in graphs already are collected
graph_names_known(cfs) ==
    {it.item.quad.graph_name : it \in {x \in quads(cfs) :
        encode_term(x.item.quad.graph_name) \in cfs["graphs"]}}

\* migrate: `for quad in self.snapshot().quads() { .. graph_names.insert(quad.graph_name) }`
graph_names(cfs) ==
    {it.item.quad.graph_name : it \in {x \in quads(cfs) :
        ~is_default_graph(x.item.quad.graph_name)}}

\* migrate: the graph names encoded, sorted, written to a file for graphs
graphs_file(names) == << <<"graphs", sort_unstable({encode_term(g) : g \in names})>> >>

\* variant: a version newer than the latest is accepted
check_version_accepting_newer(version) ==
    IF version < LATEST_STORAGE_VERSION THEN "CorruptionError" ELSE "Ok"

\* migrate: `match version { .. }`
check_version(version) ==
    IF version < LATEST_STORAGE_VERSION THEN "CorruptionError"
    ELSE IF version = LATEST_STORAGE_VERSION THEN "Ok"
    ELSE "CorruptionError"

\* the stores an open can find: coherent quad indexes, with graphs complete
\* (written by version 1) or holding any part of the names (written by version 0)
StoredQuadSets == {iterated_insert([db |-> EmptyCFs, id2str |-> {}], sq) : sq \in SeqsUpTo(Quads, MaxRows)}
OpenStores ==
    {[db |-> store.db, id2str |-> store.id2str, default_cf |-> {}] : store \in StoredQuadSets}
    \cup {[db |-> store.db, id2str |-> store.id2str, default_cf |-> {oxversion(version)}] :
             store \in StoredQuadSets, version \in 1..MaxVersion}
    \cup {[db |-> [store.db EXCEPT !["graphs"] = known], id2str |-> store.id2str,
           default_cf |-> {oxversion(0)}] :
             store \in StoredQuadSets, known \in SUBSET {encode_term(g) : g \in GraphNames}}

\* the open call: where it stands, the version it holds, the names collected,
\* its result, the step that failed, and the store it was given
OpenRun(store) ==
    [pc |-> "ensure_version", version |-> 0, graph_names |-> {}, ret |-> "none",
     failed |-> "none", store0 |-> store]

InitOpen ==
    /\ \E store \in OpenStores :
          /\ db = store.db
          /\ id2str = store.id2str
          /\ default_cf = store.default_cf
          /\ run = OpenRun([db |-> store.db, default_cf |-> store.default_cf])
    /\ tx = IdleTx
    /\ call = NoCall
    /\ loader = NoLoader

\* `?` on the error of an engine call at the step the open stands at; a
\* failing update_version may have inserted the version before its flush failed
Failed(step) == [run EXCEPT !.pc = "done", !.ret = "Err", !.failed = step]

\* `let mut version = self.ensure_version()?;`
EnsureVersion ==
    /\ run.pc = "ensure_version"
    /\ LET r == ensure_version(default_cf)
       IN  \/ /\ default_cf' = r.default_cf
              /\ run' = [run EXCEPT !.version = r.version,
                                    !.pc = IF r.version = 0 THEN "collect" ELSE "match"]
           \/ /\ default_cf' \in {default_cf, r.default_cf}
              /\ run' = Failed("ensure_version")
    /\ UNCHANGED <<db, id2str, tx, call, loader>>

\* `for quad in self.snapshot().quads() { let quad = quad?; .. }`
CollectGraphNames ==
    /\ run.pc = "collect"
    /\ \/ run' = [run EXCEPT !.graph_names = graph_names(db), !.pc = "ingest"]
       \/ run' = Failed("collect")
    /\ UNCHANGED <<db, id2str, tx, call, loader, default_cf>>

\* new_sst_file, insert_empty for each name, finish, insert_stt_files
IngestGraphNames ==
    /\ run.pc = "ingest"
    /\ \/ /\ db' = insert_stt_files([db |-> db, id2str |-> id2str],
                                    graphs_file(run.graph_names)).db
          /\ run' = [run EXCEPT !.pc = "update_version"]
       \/ /\ db' = db
          /\ run' = Failed("ingest")
    /\ UNCHANGED <<id2str, tx, call, loader, default_cf>>

\* `version = 1; self.update_version(version)?;`
UpdateVersion ==
    /\ run.pc = "update_version"
    /\ \/ /\ default_cf' = update_version(default_cf, 1)
          /\ run' = [run EXCEPT !.version = 1, !.pc = "match"]
       \/ /\ default_cf' \in {default_cf, update_version(default_cf, 1)}
          /\ run' = Failed("update_version")
    /\ UNCHANGED <<db, id2str, tx, call, loader>>

\* `match version { .. }` and the return of setup
MatchVersion ==
    /\ run.pc = "match"
    /\ run' = [run EXCEPT !.pc = "done", !.ret = check_version(run.version)]
    /\ UNCHANGED <<db, id2str, tx, call, loader, default_cf>>

\* the next Storage::open of the stored database
Reopen ==
    /\ run.pc = "done"
    /\ run' = OpenRun([db |-> db, default_cf |-> default_cf])
    /\ UNCHANGED <<db, id2str, tx, call, loader, default_cf>>

NextOpen ==
    \/ EnsureVersion
    \/ CollectGraphNames
    \/ IngestGraphNames
    \/ UpdateVersion
    \/ MatchVersion
    \/ Reopen

SpecOpen == InitOpen /\ [][NextOpen]_vars

(***************************************************************************)
(* StorageReader::validate, on stores written by the writer and on stores  *)
(* whose column families were changed behind its back.                     *)
(***************************************************************************)
\* Decoder::decode_quad: every string of the quad is found by get_str
decode_quad(strs, quad) ==
    \A term \in {quad.subject, quad.predicate, quad.object, quad.graph_name} :
        term[1] = "NamedNode" => \E e \in strs : e[1] = to_be_bytes(term[2], StrHashSize)

\* the body of the loop over dspo: the row decodes, its strings resolve and
\* dpos and dosp hold the triple
default_row_is_valid(item, live, strs) ==
    /\ item.ok
    /\ decode_quad(strs, item.quad)
    /\ encode_term_triple(item.quad.predicate, item.quad.object, item.quad.subject)
          \in live["dpos"]
    /\ encode_term_triple(item.quad.object, item.quad.subject, item.quad.predicate)
          \in live["dosp"]

\* variant: the graph name of a quad is not looked up in graphs
named_row_is_valid_without_graphs(item, live, strs) ==
    /\ item.ok
    /\ decode_quad(strs, item.quad)
    /\ encode_term_quad(item.quad.graph_name, item.quad.predicate, item.quad.object,
                        item.quad.subject) \in live["gpos"]
    /\ encode_term_quad(item.quad.graph_name, item.quad.object, item.quad.subject,
                        item.quad.predicate) \in live["gosp"]
    /\ encode_term_quad(item.quad.subject, item.quad.predicate, item.quad.object,
                        item.quad.graph_name) \in live["spog"]
    /\ encode_term_quad(item.quad.predicate, item.quad.object, item.quad.subject,
                        item.quad.graph_name) \in live["posg"]
    /\ encode_term_quad(item.quad.object, item.quad.subject, item.quad.predicate,
                        item.quad.graph_name) \in live["ospg"]
\* the body of the loop over gspo: the row decodes, its strings resolve,
\* the five other indexes hold the quad and graphs holds its graph name
named_row_is_valid(item, live, strs) ==
    /\ item.ok
    /\ decode_quad(strs, item.quad)
    /\ encode_term_quad(item.quad.graph_name, item.quad.predicate, item.quad.object,
                        item.quad.subject) \in live["gpos"]
    /\ encode_term_quad(item.quad.graph_name, item.quad.object, item.quad.subject,
                        item.quad.predicate) \in live["gosp"]
    /\ encode_term_quad(item.quad.subject, item.quad.predicate, item.quad.object,
                        item.quad.graph_name) \in live["spog"]
    /\ encode_term_quad(item.quad.predicate, item.quad.object, item.quad.subject,
                        item.quad.graph_name) \in live["posg"]
    /\ encode_term_quad(item.quad.object, item.quad.subject, item.quad.predicate,
                        item.quad.graph_name) \in live["ospg"]
    /\ encode_term(item.quad.graph_name) \in live["graphs"]

\* the number of rows of a column family, as the scan counts them
count(cfs, cf) == Cardinality(scan_prefix(cfs, cf, <<>>))

\* validate, from the scans of dspo and of gspo
validate_scans(dspo, gspo, snapshot, live, strs) ==
    IF \E cf \in {"dpos", "dosp"} : Cardinality(dspo) # count(snapshot, cf)
    THEN "CorruptionError"
    ELSE IF \E spo \in dspo : ~default_row_is_valid(spo.item, live, strs)
    THEN "CorruptionError"
    ELSE IF \E cf \in {"gpos", "gosp", "spog", "posg", "ospg"} :
               Cardinality(gspo) # count(snapshot, cf)
    THEN "CorruptionError"
    ELSE IF \E it \in gspo : ~named_row_is_valid(it.item, live, strs)
    THEN "CorruptionError"
    ELSE "Ok"

\* StorageReader::validate: the scans read the reader's snapshot, the
\* contains_key probes and get_str read the database
validate(snapshot, live, strs) ==
    validate_scans(dspo_quads(snapshot, <<>>), gspo_quads(snapshot, <<>>), snapshot, live, strs)

\* the rows a quad index or graphs can hold
PossibleRows ==
    UNION {Range(index_keys(q)) : q \in Quads}
    \cup {<<"graphs", encode_term(g)>> : g \in GraphNames}

ValidateRun(pc, tampered, ret) == [pc |-> pc, tampered |-> tampered, ret |-> ret]

InitValidate ==
    /\ db = EmptyCFs
    /\ id2str = {}
    /\ tx = IdleTx
    /\ call = NoCall
    /\ loader = NoLoader
    /\ default_cf = LatestVersion
    /\ run = ValidateRun("open", 0, "none")

\* the calls a closure given to Storage::transaction makes on its writer
WriterCalls ==
    {<<op, q>> : op \in {"insert", "remove"}, q \in Quads}
    \cup {<<op, g>> : op \in {"insert_named_graph", "remove_named_graph"}, g \in GraphNames}
    \cup {<<"clear_graph", g>> : g \in GraphNames \cup {DefaultGraph}}
    \cup {<<op, None>> : op \in {"clear_all_named_graphs", "clear_all_graphs",
                                 "remove_all_named_graphs", "clear"}}

writer_call(w, c) ==
    CASE c[1] = "insert" -> insert(w, c[2])
      [] c[1] = "remove" -> remove(w, c[2])
      [] c[1] = "insert_named_graph" -> insert_named_graph(w, c[2])
      [] c[1] = "remove_named_graph" -> remove_named_graph(w, c[2])
      [] c[1] = "clear_graph" -> clear_graph(w, c[2])
      [] c[1] = "clear_all_named_graphs" -> clear_all_named_graphs(w)
      [] c[1] = "clear_all_graphs" -> clear_all_graphs(w)
      [] c[1] = "remove_all_named_graphs" -> remove_all_named_graphs(w)
      [] c[1] = "clear" -> clear(w)

\* the commit of a transaction whose closure returned writer state `w`
committed(w) ==
    /\ Rows(commit(w.db, w.tx)) <= MaxRows
    /\ db' = commit(w.db, w.tx)
    /\ id2str' = w.id2str

\* storage.transaction(|mut w| w.<call>): the call in a transaction of its
\* own, committed
Transact ==
    /\ run.pc = "open"
    /\ run.tampered = 0
    /\ \E c \in WriterCalls :
          committed(writer_call([tx |-> [IdleTx EXCEPT !.status = "active"],
                                 db |-> db, id2str |-> id2str], c))
    /\ UNCHANGED <<tx, call, loader, default_cf, run>>

\* one row is added to or deleted from one column family of the stored
\* database, outside of the storage layer
Tamper ==
    /\ run.pc = "open"
    /\ tx.status = "idle"
    /\ run.tampered < MaxTamper
    /\ \E row \in PossibleRows :
          db' = [db EXCEPT ![row[1]] = IF row[2] \in @ THEN @ \ {row[2]} ELSE @ \cup {row[2]}]
    /\ run' = [run EXCEPT !.tampered = @ + 1]
    /\ UNCHANGED <<id2str, tx, call, loader, default_cf>>

\* storage.snapshot().validate(), between two transactions
Validate ==
    /\ run.pc = "open"
    /\ tx.status = "idle"
    /\ run' = [run EXCEPT !.pc = "validated", !.ret = validate(db, db, id2str)]
    /\ UNCHANGED <<db, id2str, tx, call, loader, default_cf>>

NextValidate ==
    \/ Transact
    \/ Tamper
    \/ Validate

SpecValidate == InitValidate /\ [][NextValidate]_vars

(***************************************************************************)
(* Properties.                                                             *)
(***************************************************************************)
EncodingOf(cf) ==
    CASE cf = "dspo" -> "Dspo" [] cf = "dpos" -> "Dpos" [] cf = "dosp" -> "Dosp"
      [] cf = "spog" -> "Spog" [] cf = "posg" -> "Posg" [] cf = "ospg" -> "Ospg"
      [] cf = "gspo" -> "Gspo" [] cf = "gpos" -> "Gpos" [] cf = "gosp" -> "Gosp"

\* the key of quad q under the permutation of column family cf
KeyFor(cf, q) ==
    CASE cf = "dspo" -> encode_term_triple(q.subject, q.predicate, q.object)
      [] cf = "dpos" -> encode_term_triple(q.predicate, q.object, q.subject)
      [] cf = "dosp" -> encode_term_triple(q.object, q.subject, q.predicate)
      [] cf = "spog" -> encode_term_quad(q.subject, q.predicate, q.object, q.graph_name)
      [] cf = "posg" -> encode_term_quad(q.predicate, q.object, q.subject, q.graph_name)
      [] cf = "ospg" -> encode_term_quad(q.object, q.subject, q.predicate, q.graph_name)
      [] cf = "gspo" -> encode_term_quad(q.graph_name, q.subject, q.predicate, q.object)
      [] cf = "gpos" -> encode_term_quad(q.graph_name, q.predicate, q.object, q.subject)
      [] cf = "gosp" -> encode_term_quad(q.graph_name, q.object, q.subject, q.predicate)

GroupCoherent(cfs, group) ==
    \A cf1 \in group :
        /\ \A cf2 \in group : Cardinality(cfs[cf1]) = Cardinality(cfs[cf2])
        /\ \A key \in cfs[cf1] :
              LET r == decode(EncodingOf(cf1), key)
              IN  /\ r.ok
                  /\ \A cf2 \in group : KeyFor(cf2, r.quad) \in cfs[cf2]

Coherent(cfs) == GroupCoherent(cfs, DefaultCFs) /\ GroupCoherent(cfs, NamedCFs)

\* a step made by one writer call of the running closure
CallStep == tx.status = "active" /\ tx'.nops = tx.nops + 1

\* C1: in every committed state the three default-graph indexes have equal
\* row counts and hold the same quads, and so do the six named-graph indexes.
C1_IndexCoherence == Coherent(db)

\* a committed state with rows in both groups
C1_Witness ==
    /\ tx.status = "idle"
    /\ Cardinality(db["dpos"]) = 1
    /\ Cardinality(db["gosp"]) = 1

\* C2: in every committed state, the graph name of every quad stored in a
\* named-graph index is a key of the graphs column family.
C2_GraphsOfQuads ==
    \A cf \in NamedCFs : \A key \in db[cf] :
        LET r == decode(EncodingOf(cf), key)
        IN  r.ok /\ encode_term(r.quad.graph_name) \in db["graphs"]

\* a committed state with a quad in one graph and another graph left empty
C2_Witness ==
    /\ tx.status = "idle"
    /\ Cardinality(db["graphs"]) = 2
    /\ Cardinality(db["spog"]) = 1

Matches(q, s, p, o, g) ==
    /\ s = None \/ q.subject = s
    /\ p = None \/ q.predicate = p
    /\ o = None \/ q.object = o
    /\ g = None \/ q.graph_name = g

StoredQuads(cfs) == {q \in Quads : contains(cfs, q)}

PatternTerms == Terms \cup {None}
PatternGraphs == GraphNames \cup {DefaultGraph, None}

PatternExact(cfs, s, p, o, g) ==
    LET res == quads_for_pattern(cfs, s, p, o, g)
    IN  /\ \A it \in res :
              /\ it.item.ok
              /\ it.item.quad \in StoredQuads(cfs)
              /\ Matches(it.item.quad, s, p, o, g)
        /\ \A q \in StoredQuads(cfs) :
              Matches(q, s, p, o, g) =>
                  Cardinality({it \in res : it.item.quad = q}) = 1

\* C3: on every committed state, quads_for_pattern yields, for every
\* pattern, exactly the stored quads that match it, each once.
C3_PatternScan ==
    tx.status = "idle" =>
        \A s \in PatternTerms, p \in PatternTerms, o \in PatternTerms, g \in PatternGraphs :
            PatternExact(db, s, p, o, g)

\* a committed state where the pattern (s, ?, o, ?) yields a default-graph
\* and a named-graph quad
C3_Witness ==
    /\ tx.status = "idle"
    /\ Cardinality(quads_for_pattern(db, NamedNode(1), None, BooleanLiteral(TRUE), None)) = 2
    /\ Cardinality(quads_for_pattern(db, NamedNode(1), None, BooleanLiteral(TRUE), DefaultGraph)) = 1

\* C4: insert returns true exactly when the quad was absent before the call,
\* and remove returns true exactly when it was present.
C4_ReturnValue ==
    [][CallStep /\ call'.ret # "Err" =>
          /\ call'.op = "insert" =>
                (call'.ret = "true" <=> ~contains(ViewNow, call'.arg))
          /\ call'.op = "remove" =>
                (call'.ret = "true" <=> contains(ViewNow, call'.arg))]_vars

\* an insert of a present quad has returned false
C4_Witness == call.op = "insert" /\ call.ret = "false"

\* C5: an insert of a quad that is already present returns false and leaves
\* every column family, id2str included, as it was.
C5_InsertPresent ==
    [][CallStep /\ call'.op = "insert" /\ call'.ret # "Err"
         /\ contains(ViewNow, call'.arg) =>
          /\ call'.ret = "false"
          /\ reader(db', tx') = ViewNow
          /\ id2str' = id2str]_vars

\* the second insert of the same named-graph quad in one transaction
C5_Witness ==
    /\ call.op = "insert" /\ call.ret = "false"
    /\ tx.nops = 2
    /\ ~is_default_graph(call.arg.graph_name)
    /\ Cardinality(tx.puts["spog"]) = 1

AllOrNone(cfs, q) ==
    LET keys == index_keys(q)
        present == {i \in 1..Len(keys) : keys[i][2] \in cfs[keys[i][1]]}
    IN  present = {} \/ present = 1..Len(keys)

\* C6: a transaction whose call failed ends with the committed indexes and
\* graphs as they were; while a transaction runs they change only when it
\* ends, and then to all of its writes at once; after every change each quad
\* has all of its index rows or none.
C6_Atomicity ==
    [][/\ tx.status = "failed" => (tx'.status = "idle" /\ db' = db)
       /\ (tx.status = "active" /\ db' # db) =>
             (tx'.status = "idle" /\ db' = reader(db, tx))
       /\ db' # db => \A q \in Quads : AllOrNone(db', q)]_vars

\* an insert has failed between two index writes of a named-graph quad
C6_Witness ==
    /\ tx.status = "failed"
    /\ call.op = "insert"
    /\ Cardinality(tx.puts["spog"]) = 1
    /\ tx.puts["gosp"] = {}

HashesOf(term) == IF term[1] = "NamedNode" THEN {term[2]} ELSE {}
HashesOfQuad(q) ==
    HashesOf(q.subject) \cup HashesOf(q.predicate) \cup HashesOf(q.object)
        \cup HashesOf(q.graph_name)
HasStr(strs, hash) == \E e \in strs : e[1] = to_be_bytes(hash, StrHashSize)

\* C7: every string hash of a term of a committed quad, and of a member of
\* graphs, has an entry in id2str.
C7_StringsPresent ==
    /\ \A cf \in DefaultCFs \cup NamedCFs : \A key \in db[cf] :
          LET r == decode(EncodingOf(cf), key)
          IN  r.ok /\ \A h \in HashesOfQuad(r.quad) : HasStr(id2str, h)
    /\ \A key \in db["graphs"] :
          LET r == decode_term(key)
          IN  r.ok /\ \A h \in HashesOf(r.term) : HasStr(id2str, h)

\* a committed quad whose graph name is the only term with its hash
C7_Witness ==
    /\ tx.status = "idle"
    /\ KeyFor("gpos", EncodedQuad(NamedNode(1), NamedNode(MaxHash), BooleanLiteral(TRUE),
                                  NamedNode(MaxHash + 1))) \in db["gpos"]

\* C8: no step removes or replaces an entry of id2str.
C8_Id2strGrows == [][id2str \subseteq id2str']_vars

\* a remove has succeeded and the strings are still there
C8_Witness ==
    /\ call.op = "remove" /\ call.ret = "true"
    /\ Cardinality(id2str) >= 2

GraphQuads(cfs, g) == {q \in StoredQuads(cfs) : q.graph_name = g}

\* C9: remove of a named-graph quad deletes its six rows and leaves graphs as
\* it was; a writer call takes a name out of graphs only if it is
\* remove_named_graph, remove_all_named_graphs or clear.
C9_RemoveKeepsGraph ==
    [][CallStep /\ call'.ret # "Err" =>
          /\ (call'.op = "remove" /\ call'.ret = "true"
                /\ ~is_default_graph(call'.arg.graph_name)) =>
                /\ \A cf \in NamedCFs : KeyFor(cf, call'.arg) \notin reader(db', tx')[cf]
                /\ reader(db', tx')["graphs"] = ViewNow["graphs"]
          /\ ~(ViewNow["graphs"] \subseteq reader(db', tx')["graphs"]) =>
                call'.op \in {"remove_named_graph", "remove_all_named_graphs", "clear"}]_vars

\* the last quad of a graph has been removed and the graph is still listed
C9_Witness ==
    /\ call.op = "remove" /\ call.ret = "true"
    /\ ~is_default_graph(call.arg.graph_name)
    /\ GraphQuads(ViewNow, call.arg.graph_name) = {}
    /\ contains_named_graph(ViewNow, call.arg.graph_name)

\* C10: when a bulk load has returned Ok, whatever the batches and the order
\* in which the workers ran, a full scan and graphs hold what inserting the
\* quads of the input one after the other into the initial store gives.
C10_BulkEqualsInserts ==
    (loader.pc = "done" /\ loader.result = "Ok") =>
        LET expected == iterated_insert(loader.store0, loader.quads0)
        IN  /\ quads(db) = quads(expected.db)
            /\ named_graphs(db) = named_graphs(expected.db)

\* a load of three batches has returned, the first and the last batch
\* holding the same named-graph quad
C10_Witness ==
    /\ loader.pc = "done" /\ loader.result = "Ok"
    /\ Len(loader.workers) > MaxInput
    /\ Len(loader.quads0) = MaxInput
    /\ loader.quads0[1] = loader.quads0[MaxInput]
    /\ ~is_default_graph(loader.quads0[1].graph_name)
    /\ loader.store0.db = EmptyCFs


(***************************************************************************)
(* Graph-level operations.                                                 *)
(***************************************************************************)
ViewNext == reader(db', tx')
\* the rows of index cf that hold a quad of graph g
RowsOf(cfs, cf, g) == {key \in cfs[cf] : decode(EncodingOf(cf), key).quad.graph_name = g}
GroupOf(g) == IF is_default_graph(g) THEN DefaultCFs ELSE NamedCFs

\* C14: clear_graph(g) leaves no row of a quad of g in any index of g's
\* group, leaves graphs as it was (g's membership included) and leaves the
\* rows of every other graph as they were.
C14_ClearGraph ==
    [][(CallStep /\ call'.op = "clear_graph") =>
          /\ call'.ret = "Ok"
          /\ \A cf \in GroupOf(call'.arg) : RowsOf(ViewNext, cf, call'.arg) = {}
          /\ ViewNext["graphs"] = ViewNow["graphs"]
          /\ \A cf \in DefaultCFs \cup NamedCFs :
                ViewNext[cf] \ RowsOf(ViewNext, cf, call'.arg)
                   = ViewNow[cf] \ RowsOf(ViewNow, cf, call'.arg)]_vars

\* clear_graph of a named graph has deleted rows, the graph is still in
\* graphs, and a quad of the default graph is still stored
C14_Witness ==
    /\ call.op = "clear_graph" /\ call.ret = "Ok"
    /\ tx.status = "active" /\ tx.nops = 1
    /\ ~is_default_graph(call.arg)
    /\ tx.dels["gosp"] # {}
    /\ contains_named_graph(ViewNow, call.arg)
    /\ ViewNow["dspo"] # {}

\* C15: remove_named_graph(g) returns true exactly when g was in graphs;
\* after true no index holds a quad of g and g is not in graphs; on false
\* the store is unchanged.
C15_RemoveNamedGraph ==
    [][(CallStep /\ call'.op = "remove_named_graph") =>
          /\ call'.ret \in {"true", "false"}
          /\ call'.ret = "true" <=> encode_term(call'.arg) \in ViewNow["graphs"]
          /\ call'.ret = "true" =>
                /\ \A cf \in NamedCFs : RowsOf(ViewNext, cf, call'.arg) = {}
                /\ encode_term(call'.arg) \notin ViewNext["graphs"]
          /\ call'.ret = "false" =>
                /\ ViewNext = ViewNow
                /\ db' = db
                /\ id2str' = id2str]_vars

\* remove_named_graph returned true, has deleted rows, and the name is gone
C15_Witness ==
    /\ call.op = "remove_named_graph" /\ call.ret = "true"
    /\ tx.status = "active" /\ tx.nops = 1
    /\ tx.dels["gpos"] # {}
    /\ ~contains_named_graph(ViewNow, call.arg)

\* C16: after remove_all_named_graphs, graphs and the six named indexes are
\* empty and dspo, dpos, dosp are as before; after clear the three default
\* indexes are empty too.
C16_RemoveAllAndClear ==
    [][CallStep =>
          /\ call'.op = "remove_all_named_graphs" =>
                /\ call'.ret = "Ok"
                /\ \A cf \in NamedCFs \cup {"graphs"} : ViewNext[cf] = {}
                /\ \A cf \in DefaultCFs : ViewNext[cf] = ViewNow[cf]
          /\ call'.op = "clear" =>
                /\ call'.ret = "Ok"
                /\ \A cf \in CFNames : ViewNext[cf] = {}]_vars

\* remove_all_named_graphs has deleted rows and names, and a quad of the
\* default graph is still stored
C16_Witness ==
    /\ call.op = "remove_all_named_graphs" /\ call.ret = "Ok"
    /\ tx.status = "active" /\ tx.nops = 1
    /\ tx.dels["gspo"] # {} /\ tx.dels["graphs"] # {}
    /\ ViewNow["graphs"] = {}
    /\ ViewNow["dpos"] # {}

(***************************************************************************)
(* The codec.                                                              *)
(***************************************************************************)
RoundTripped == run.pc = "done" /\ run.op = "round_trip"
ReadBack == run.ret.ok /\ run.ret.term = run.term /\ run.ret.rest = <<>>

\* C11, as stated: for every encoded term t, read_term(write_term(t)) is t.
\* It fails for DefaultGraph, for which write_term emits nothing.
C11_RoundTripOfEveryTerm == RoundTripped => ReadBack

\* C11, amended: for every encoded term t that is not DefaultGraph and holds
\* no DefaultGraph inside a quoted triple, reading the bytes written for t
\* gives back t (same variant, same payload, inner terms included) and
\* consumes all the bytes.
C11_RoundTrip == (RoundTripped /\ ~has_default_graph(run.term)) => ReadBack

C11_Witness ==
    /\ RoundTripped
    /\ run.term = Triple(<<"BigSmallLangStringLiteral", <<1, <<97>> >> >>, NamedNode(1), Nested(1))
    /\ ReadBack

DefaultEncodings == {"Dspo", "Dpos", "Dosp"}
Decoded == run.pc = "done" /\ run.op = "decode"

\* C12: the key written for a quad under each of the three default-graph
\* encodings decodes to the quad with graph_name DefaultGraph, and the key
\* written for a named-graph quad under each of the six named encodings
\* decodes to the quad itself.
C12_KeysDecode ==
    Decoded =>
       IF run.encoding \in DefaultEncodings
       THEN run.ret.ok /\ run.ret.quad = [run.quad EXCEPT !.graph_name = DefaultGraph]
       ELSE ~is_default_graph(run.quad.graph_name) => (run.ret.ok /\ run.ret.quad = run.quad)

C12_Witness ==
    /\ Decoded
    /\ run.encoding = "Gosp"
    /\ run.quad = EncodedQuad(Nested(1), NamedNode(MaxHash), <<"IntegerLiteral", -1>>,
                              <<"SmallBlankNode", <<97, 98>> >>)
    /\ run.ret.ok
    /\ run.ret.quad = run.quad

\* the tags of the table of term encodings
TermTags ==
    {TYPE_NAMED_NODE_ID, TYPE_NUMERICAL_BLANK_NODE_ID, TYPE_SMALL_BLANK_NODE_ID,
     TYPE_BIG_BLANK_NODE_ID, TYPE_SMALL_STRING_LITERAL, TYPE_BIG_STRING_LITERAL,
     TYPE_SMALL_SMALL_LANG_STRING_LITERAL, TYPE_SMALL_BIG_LANG_STRING_LITERAL,
     TYPE_BIG_SMALL_LANG_STRING_LITERAL, TYPE_BIG_BIG_LANG_STRING_LITERAL,
     TYPE_SMALL_TYPED_LITERAL, TYPE_BIG_TYPED_LITERAL, TYPE_BOOLEAN_LITERAL_TRUE,
     TYPE_BOOLEAN_LITERAL_FALSE, TYPE_FLOAT_LITERAL, TYPE_DOUBLE_LITERAL,
     TYPE_INTEGER_LITERAL, TYPE_DECIMAL_LITERAL, TYPE_DATE_TIME_LITERAL, TYPE_TIME_LITERAL,
     TYPE_DATE_LITERAL, TYPE_G_YEAR_MONTH_LITERAL, TYPE_G_YEAR_LITERAL,
     TYPE_G_MONTH_DAY_LITERAL, TYPE_G_DAY_LITERAL, TYPE_G_MONTH_LITERAL,
     TYPE_DURATION_LITERAL, TYPE_YEAR_MONTH_DURATION_LITERAL,
     TYPE_DAY_TIME_DURATION_LITERAL, TYPE_TRIPLE}
ReadRaw == run.pc = "done" /\ run.op = "decode_term"

\* C13: read_term on bytes whose first byte is not a tag of the table
\* (0, 2-7, 50, 51, 64-255 among them) returns a corruption error and no term.
C13_UnknownTagIsCorruption ==
    (ReadRaw /\ run.bytes[1] \notin TermTags) =>
        (~run.ret.ok /\ run.ret.err = "Corruption" /\ run.ret.term = None)

C13_Witness ==
    /\ ReadRaw
    /\ run.bytes[1] = TYPE_CLASS
    /\ Len(run.bytes) > SmallStringSize
    /\ run.ret.err = "Corruption"


(***************************************************************************)
(* Opening a stored database.                                              *)
(***************************************************************************)
StoredAs(cf, bytes) == get(cf, "oxversion") = <<"Some", bytes>>
Opened == run.pc = "done" /\ run.ret = "Ok"
\* the graph names of the stored named-graph quads, as keys of graphs
NamesOfQuads(cfs) == {encode_term(decode("Gspo", key).quad.graph_name) : key \in cfs["gspo"]}

\* C17: after every successful open (of a store without version, of a store
\* of version 1, of a store of version 0) the value under "oxversion" in the
\* default column family is the 8 bytes 0 0 0 0 0 0 0 1.
C17_VersionAfterOpen == Opened => StoredAs(default_cf, <<0, 0, 0, 0, 0, 0, 0, 1>>)

\* a store that had no version has been opened
C17_Witness ==
    /\ Opened
    /\ get(run.store0.default_cf, "oxversion") = None
    /\ run.store0.db["gspo"] # {}

\* C18: during and after the open of a store of version 0, version 1 is
\* stored only when every graph name of the stored quads is in graphs; the
\* open that succeeds has added exactly these names to graphs; an open that
\* failed while collecting or ingesting has left version 0; and the open
\* goes past the migration only with version 1 stored, so a store left at
\* version 0 is migrated again by the next open.
C18_MigrationFromV0 ==
    StoredAs(run.store0.default_cf, to_be_bytes(0, 8)) =>
       /\ StoredAs(default_cf, to_be_bytes(1, 8)) => NamesOfQuads(db) \subseteq db["graphs"]
       /\ Opened => db["graphs"] = run.store0.db["graphs"] \cup NamesOfQuads(db)
       /\ (run.pc = "done" /\ run.failed \in {"collect", "ingest"}) =>
             StoredAs(default_cf, to_be_bytes(0, 8))
       /\ run.pc = "match" => StoredAs(default_cf, to_be_bytes(1, 8))

\* a store of version 0 whose graphs lacked a name has been opened
C18_Witness ==
    /\ Opened
    /\ StoredAs(run.store0.default_cf, to_be_bytes(0, 8))
    /\ ~(NamesOfQuads(db) \subseteq run.store0.db["graphs"])
    /\ NamesOfQuads(db) \subseteq db["graphs"]

\* C19: the open of a store whose version is greater than 1 writes nothing
\* (the version and graphs stay as stored), never succeeds, and returns a
\* corruption error whenever the engine could read the version.
C19_NewerVersion ==
    (\E version \in 2..MaxVersion : StoredAs(run.store0.default_cf, to_be_bytes(version, 8))) =>
       /\ db = run.store0.db
       /\ default_cf = run.store0.default_cf
       /\ run.pc = "done" =>
             /\ run.ret # "Ok"
             /\ run.failed = "none" => run.ret = "CorruptionError"

\* a store of version 2 that holds quads has been refused
C19_Witness ==
    /\ run.pc = "done"
    /\ StoredAs(run.store0.default_cf, to_be_bytes(2, 8))
    /\ run.ret = "CorruptionError"
    /\ db["gspo"] # {}


(***************************************************************************)
(* validate.                                                               *)
(***************************************************************************)
\* some quad has a row in one index and none in another index of its group
RowMissing(cfs) ==
    \E group \in {DefaultCFs, NamedCFs} : \E cf1 \in group, cf2 \in group :
        \E key \in cfs[cf1] : KeyFor(cf2, decode(EncodingOf(cf1), key).quad) \notin cfs[cf2]
\* some quad of a named graph is stored and its graph name is not in graphs
GraphMissing(cfs) ==
    \E cf \in NamedCFs : \E key \in cfs[cf] :
        encode_term(decode(EncodingOf(cf), key).quad.graph_name) \notin cfs["graphs"]

\* C20: validate returns a corruption error on every store in which a quad
\* has a row in one index and none in another index of its group, or in
\* which the graph name of a stored named-graph quad is not in graphs, and
\* returns Ok on every store written through the writer only.
C20_Validate ==
    run.pc = "validated" =>
       /\ (RowMissing(db) \/ GraphMissing(db)) => run.ret = "CorruptionError"
       /\ run.tampered = 0 => run.ret = "Ok"

\* validate has refused a store with a row removed from one index only, the
\* row counts of the group being made equal again by a second change
C20_Witness ==
    /\ run.pc = "validated"
    /\ run.tampered = 2
    /\ run.ret = "CorruptionError"
    /\ \A cf \in NamedCFs : Cardinality(db[cf]) = 1
    /\ RowMissing(db)

(***************************************************************************)
(* The threads of a bulk load.                                             *)
(***************************************************************************)
\* the workers spawned and not joined: the join handles in the queue
Outstanding(l) == Len(l.threads)

\* C21: at every point of a bulk load at most num_threads workers are
\* spawned and not joined; a worker is spawned only when fewer than
\* num_threads are in the queue, and the worker joined is the oldest one of
\* the queue, which holds the workers in spawn order.
C21_BoundedWorkers ==
    [][/\ Outstanding(loader') <= loader'.num_threads
       /\ Len(loader'.workers) > Len(loader.workers) =>
             /\ Outstanding(loader) < loader.num_threads
             /\ loader'.threads = Append(loader.threads, Len(loader'.workers))
       /\ Outstanding(loader') < Outstanding(loader) =>
             /\ loader'.threads = Tail(loader.threads)
             /\ \A i \in DOMAIN loader.threads : loader.threads[1] <= loader.threads[i]
             /\ loader.workers[Head(loader.threads)].state \in {"finished", "failed"}]_vars

\* the queue was full and its oldest worker has been joined before the spawn
C21_Witness ==
    /\ loader.pc = "spawn_joined"
    /\ Outstanding(loader) = loader.num_threads - 1
    /\ Len(loader.workers) = loader.num_threads
    /\ loader.buffer # <<>>

\* every row of quad q is in its column family
Present(cfs, q) == \A row \in Range(index_keys(q)) : row[2] \in cfs[row[1]]
SomeWorkerFailed == \E i \in DOMAIN loader.workers : loader.workers[i].state = "failed"

Joins(l, next) == Len(next.threads) < Len(l.threads)
\* the workers whose files are ingested
Saved(l) == {i \in DOMAIN l.workers : l.workers[i].state \in {"saved", "finished"}}

\* C23: load returns the error of a failed worker in the step that joins
\* that worker, and in no other step; it does not return Ok when a worker
\* has failed; and what the workers that completed have ingested stays in
\* the store, whatever load returns.
C23_WorkerFailure ==
    [][/\ (loader.result = "none" /\ loader'.result = "Err") =>
             /\ Joins(loader, loader')
             /\ loader.workers[Head(loader.threads)].state = "failed"
       /\ (Joins(loader, loader') /\ loader.workers[Head(loader.threads)].state = "failed") =>
             loader'.result = "Err"
       /\ loader'.result = "Ok" =>
             \A i \in DOMAIN loader'.workers : loader'.workers[i].state # "failed"
       /\ \A cf \in CFNames : db[cf] \subseteq db'[cf]
       /\ id2str \subseteq id2str'
       /\ \A i \in Saved(loader') :
             \A k \in DOMAIN loader'.workers[i].batch : Present(db', loader'.workers[i].batch[k])]_vars

\* load has returned the error of its second worker, and the quads of the
\* first are in the store
C23_Witness ==
    /\ loader.result = "Err"
    /\ loader.store0.db = EmptyCFs
    /\ Len(loader.workers) >= 2
    /\ loader.workers[1].state = "finished" /\ loader.workers[1].batch # <<>>
    /\ loader.workers[2].state = "failed"
    /\ Present(db, loader.workers[1].batch[1])

(***************************************************************************)
(* Progress hooks.                                                         *)
(***************************************************************************)
\* the multiples of the display step the counter has passed
Crossings(counter) == counter \div DEFAULT_BULK_LOAD_BATCH_SIZE

\* C24: whenever the main thread observes a progress counter that has
\* crossed a multiple of DEFAULT_BULK_LOAD_BATCH_SIZE since its previous
\* observation, the progress hooks are invoked.
C24_HooksAtEveryCrossing ==
    [][(/\ loader'.done = loader.done
        /\ loader'.displayed = loader.done
        /\ Crossings(loader.done) > Crossings(loader.displayed)) =>
          Len(loader'.hooks) = Len(loader.hooks) + 1]_vars


(***************************************************************************)
(* Taxonomy trees of the interval variants of the bulk loader.  A          *)
(* MultiTree (crate extendedTree) holds one node per IRI; a node may have  *)
(* several parents and carries one interval (start, end, layer) per path   *)
(* that leads to it from the root.  An IRI is written by its StrHash.      *)
(***************************************************************************)
\* the IRIs of vocab.rs that the loader and the sidecar compare against
Vocabulary ==
    <<"rdfs:subClassOf", "lubm:subOrganizationOf", "rdfs:subPropertyOf",
      "rdfs:domain", "rdfs:range", "rdf:type", "owl:Class", "rdf:Property",
      "rdfs:label">>

\* StrHash::new of an IRI of the vocabulary: a hash that no IRI of a
\* taxonomy file has
StrHash_new(iri) ==
    MaxClasses + (CHOOSE i \in DOMAIN Vocabulary : Vocabulary[i] = iri)

\* MultiTree::new(root)
MultiTree_new(root) == [root |-> root, edges |-> {}, intervals |-> <<>>]

\* MultiTree::insert(s, o) for every given (s, o)
tree_insert(tree, pairs) == [tree EXCEPT !.edges = @ \cup pairs]

tree_nodes(tree) ==
    {tree.root} \cup {e[1] : e \in tree.edges} \cup {e[2] : e \in tree.edges}

\* the parents of a node: the objects it was inserted under; the root has
\* none
tree_parents(tree, node) ==
    IF node = tree.root THEN {}
    ELSE {e[2] : e \in {x \in tree.edges : x[1] = node}}

\* the children of a node; a node that was inserted under no parent hangs
\* under the root
tree_children(tree, node) ==
    {c \in tree_nodes(tree) \ {tree.root} :
        \/ node \in tree_parents(tree, c)
        \/ node = tree.root /\ tree_parents(tree, c) = {}}

\* the children in the order of the traversal
RECURSIVE in_order(_)
in_order(nodes) ==
    IF nodes = {} THEN <<>>
    ELSE LET m == CHOOSE x \in nodes : \A y \in nodes : x <= y
         IN  <<m>> \o in_order(nodes \ {m})

\* variant: the end of an interval is its start, whatever lies below
close_interval_at_start(below, node, parent, layer, start) ==
    <<[node |-> node, parent |-> parent, start |-> start,
       end |-> start, layer |-> layer]>> \o below

\* the interval of one visit of a node, followed by those of the visits
\* below it: `start` is the counter when the visit began (pre-order), `end`
\* the counter when its subtree was done (post-order); every visit takes two
\* values of the counter
close_interval(below, node, parent, layer, start) ==
    <<[node |-> node, parent |-> parent, start |-> start,
       end |-> start + 2 * Len(below) + 1, layer |-> layer]>> \o below

\* depth-first labeling: one visit of a node per path from the root; the
\* intervals of the subtree of a node visited when the counter is `start`
RECURSIVE label(_, _, _, _, _)
RECURSIVE label_all(_, _, _, _, _)
label(tree, node, parent, layer, start) ==
    close_interval(
        label_all(tree, in_order(tree_children(tree, node)), node, layer + 1, start + 1),
        node, parent, layer, start)

\* the visits of the first child, then those of the following children
label_rest(first, tree, children, parent, layer, start) ==
    first \o label_all(tree, children, parent, layer, start + 2 * Len(first))

label_all(tree, children, parent, layer, start) ==
    IF children = <<>> THEN <<>>
    ELSE label_rest(label(tree, Head(children), parent, layer, start),
                    tree, Tail(children), parent, layer, start)

\* MultiTree::encode: labels every node, the root at layer 0 with the
\* counter at 1
tree_encode(tree) ==
    [tree EXCEPT !.intervals = label(tree, tree.root, 0, 0, 1)]

\* MultiTree::get_node_by_strhash
get_node_by_strhash(tree, hash) ==
    IF hash \in tree_nodes(tree) THEN [ok |-> TRUE, data |-> hash]
    ELSE [ok |-> FALSE]

\* Node::get_interval_nodes, in the order of their creation
get_interval_nodes(tree, node) ==
    SelectSeq(tree.intervals, LAMBDA iv : iv.node = node)

\* FileBulkLoader::construct_tree: the class tree takes the lines of
\* rdfs:subClassOf and lubm:subOrganizationOf, the property tree those of
\* rdfs:subPropertyOf; both are labeled.  A line is <<s, p, o>>.
construct_tree(lines) ==
    <<tree_encode(tree_insert(MultiTree_new(StrHash_new("owl:Class")),
          {<<l[1], l[3]>> : l \in {x \in lines :
              x[2] \in {StrHash_new("rdfs:subClassOf"),
                        StrHash_new("lubm:subOrganizationOf")}}})),
      tree_encode(tree_insert(MultiTree_new(StrHash_new("rdf:Property")),
          {<<l[1], l[3]>> : l \in {x \in lines :
              x[2] = StrHash_new("rdfs:subPropertyOf")}}))>>

(***************************************************************************)
(* The interval sidecar of a triple and the two layouts of a row that      *)
(* carries it (binary_encoder.rs).                                         *)
(***************************************************************************)
\* get_start().to_be_bytes(), get_end().to_be_bytes() and, where the code
\* writes it, get_layer().to_be_bytes() of each interval
interval_record(iv, with_layer) ==
    to_be_bytes(iv.start, 8) \o to_be_bytes(iv.end, 8)
    \o (IF with_layer THEN to_be_bytes(iv.layer, 2) ELSE <<>>)

\* the records of the intervals one after the other; a record has 18 bytes
\* with the layer and 16 without
interval_bytes(ivs, with_layer) ==
    [i \in 1..((IF with_layer THEN 18 ELSE 16) * Len(ivs)) |->
        interval_record(ivs[((i - 1) \div (IF with_layer THEN 18 ELSE 16)) + 1], with_layer)
            [((i - 1) % (IF with_layer THEN 18 ELSE 16)) + 1]]

\* `if let EncodedTerm::NamedNode { iri_id } = .. { tree.get_node_by_strhash(*iri_id) }
\*  else { Err(()) }`
tree_lookup(tree, term) ==
    IF term[1] = "NamedNode" THEN get_node_by_strhash(tree, term[2])
    ELSE [ok |-> FALSE]

\* variant: the tag is written before the lookups are examined
sub_encoding_tag_first(tag, tree, child, parent) ==
    IF ~(child.ok /\ parent.ok) THEN <<tag>>
    ELSE <<tag>>
         \o interval_bytes(SelectSeq(get_interval_nodes(tree, child.data),
                                     LAMBDA iv : iv.parent = parent.data), FALSE)
         \o interval_bytes(SubSeq(get_interval_nodes(tree, parent.data), 1, 1), TRUE)

\* variant: every interval of the child is written, whatever its parent
sub_encoding_of_every_interval(tag, tree, child, parent) ==
    IF ~(child.ok /\ parent.ok) THEN <<>>
    ELSE <<tag>>
         \o interval_bytes(get_interval_nodes(tree, child.data), FALSE)
         \o interval_bytes(SubSeq(get_interval_nodes(tree, parent.data), 1, 1), TRUE)

\* the arms of rdfs:subClassOf / lubm:subOrganizationOf and of
\* rdfs:subPropertyOf: tag, (start, end) of the child's intervals under the
\* parent, (start, end, layer) of the parent's first interval
sub_encoding(tag, tree, child, parent) ==
    IF ~(child.ok /\ parent.ok) THEN <<>>
    ELSE <<tag>>
         \o interval_bytes(SelectSeq(get_interval_nodes(tree, child.data),
                                     LAMBDA iv : iv.parent = parent.data), FALSE)
         \o interval_bytes(SubSeq(get_interval_nodes(tree, parent.data), 1, 1), TRUE)

\* the arm of rdfs:domain, rdfs:range and rdf:type: tag, number of intervals
\* of the object as one byte, then every interval
type_encoding(tree, node) ==
    IF ~node.ok THEN <<>>
    ELSE <<TYPE_CLASS, Len(get_interval_nodes(tree, node.data)) % 256>>
         \o interval_bytes(get_interval_nodes(tree, node.data), TRUE)

\* encoded_interval_encoding(map, trees)
encoded_interval_encoding(s, p, o, trees) ==
    IF p[1] # "NamedNode" THEN <<>>
    ELSE IF p[2] \in {StrHash_new("rdfs:subClassOf"), StrHash_new("lubm:subOrganizationOf")}
    THEN sub_encoding(TYPE_CLASS, trees[1], tree_lookup(trees[1], s), tree_lookup(trees[1], o))
    ELSE IF p[2] = StrHash_new("rdfs:subPropertyOf")
    THEN sub_encoding(TYPE_PROPERTY, trees[2], tree_lookup(trees[2], s), tree_lookup(trees[2], o))
    ELSE IF p[2] \in {StrHash_new("rdfs:domain"), StrHash_new("rdfs:range"), StrHash_new("rdf:type")}
    THEN type_encoding(trees[1], tree_lookup(trees[1], o))
    ELSE <<>>

\* encode_term_triple_oxiuse_value_{spo,pos,osp}: (key, value), the key of
\* the plain index and the sidecar as value
encode_term_triple_oxiuse_value_spo(s, p, o, trees) ==
    <<encode_term_triple(s, p, o), encoded_interval_encoding(s, p, o, trees)>>
encode_term_triple_oxiuse_value_pos(s, p, o, trees) ==
    <<encode_term_triple(p, o, s), encoded_interval_encoding(s, p, o, trees)>>
encode_term_triple_oxiuse_value_osp(s, p, o, trees) ==
    <<encode_term_triple(o, s, p), encoded_interval_encoding(s, p, o, trees)>>

\* encode_term_triple_oxiuse_key_{spo,pos,osp}: `key_vec.append(&mut value_vec)`
\* comes first, the three write_term calls follow on the same vector
encode_term_triple_oxiuse_key_spo(s, p, o, trees) ==
    write_term(write_term(write_term(encoded_interval_encoding(s, p, o, trees), s), p), o)
encode_term_triple_oxiuse_key_pos(s, p, o, trees) ==
    write_term(write_term(write_term(encoded_interval_encoding(s, p, o, trees), p), o), s)
encode_term_triple_oxiuse_key_osp(s, p, o, trees) ==
    write_term(write_term(write_term(encoded_interval_encoding(s, p, o, trees), o), s), p)

\* FileBulkLoader::build_sst_for_oxiuse_key: sorted keys, each inserted with
\* insert_empty
build_sst_for_oxiuse_key(keys) == sort_unstable(keys)

\* FileBulkLoader::build_sst_for_oxiuse_value: sorted (key, value) pairs,
\* each inserted with insert_key_value
build_sst_for_oxiuse_value(pairs) == sort_entries(pairs)

\* the list of files of FileBulkLoader::save with the three files of the
\* default graph replaced
with_triple_files(files, dspo, dpos, dosp) ==
    [i \in DOMAIN files |->
        CASE files[i][1] = "dspo" -> <<"dspo", dspo>>
          [] files[i][1] = "dpos" -> <<"dpos", dpos>>
          [] files[i][1] = "dosp" -> <<"dosp", dosp>>
          [] OTHER -> files[i]]

\* FileBulkLoader::save_oxiuse_key, up to the ingest call
save_oxiuse_key_files(L, trees) ==
    with_triple_files(save_files(L),
        build_sst_for_oxiuse_key({encode_term_triple_oxiuse_key_spo(q.subject, q.predicate, q.object, trees) : q \in L.triples}),
        build_sst_for_oxiuse_key({encode_term_triple_oxiuse_key_pos(q.subject, q.predicate, q.object, trees) : q \in L.triples}),
        build_sst_for_oxiuse_key({encode_term_triple_oxiuse_key_osp(q.subject, q.predicate, q.object, trees) : q \in L.triples}))

\* FileBulkLoader::save_oxiuse_value, up to the ingest call
save_oxiuse_value_files(L, trees) ==
    with_triple_files(save_files(L),
        build_sst_for_oxiuse_value({encode_term_triple_oxiuse_value_spo(q.subject, q.predicate, q.object, trees) : q \in L.triples}),
        build_sst_for_oxiuse_value({encode_term_triple_oxiuse_value_pos(q.subject, q.predicate, q.object, trees) : q \in L.triples}),
        build_sst_for_oxiuse_value({encode_term_triple_oxiuse_value_osp(q.subject, q.predicate, q.object, trees) : q \in L.triples}))

\* the rows a list of files brings: <<cf, key, value>>, the value empty for
\* a file of keys
RowsWithValues(files, with_values) ==
    UNION {{<<files[i][1],
              IF with_values THEN row[1] ELSE row,
              IF with_values THEN row[2] ELSE <<>>>> : row \in Range(files[i][2])}
           : i \in {j \in DOMAIN files : files[j][1] \in DefaultCFs}}

\* the keys of a list of files: what Db::insert_stt_files adds to each CF
keys_only(files, with_values) ==
    [i \in DOMAIN files |->
        IF with_values /\ files[i][1] \in DefaultCFs
        THEN <<files[i][1], [k \in DOMAIN files[i][2] |-> files[i][2][k][1]]>>
        ELSE files[i]]

(***************************************************************************)
(* One load of the interval variants: FileBulkLoader::load_oxiuse_key and  *)
(* load_oxiuse_value on an empty store, with a taxonomy file at `path`     *)
(* and one triple of the default graph as input.                          *)
(***************************************************************************)
ClassHashes == 1..MaxClasses

\* the lines a taxonomy file may hold: `<s> <p> <o> .` as <<s, p, o>>
TaxonomyLines ==
    {<<e[1], StrHash_new("rdfs:subClassOf"), e[2]>> :
        e \in {x \in ClassHashes \X ClassHashes : x[1] < x[2]}}
    \cup {<<1, StrHash_new("lubm:subOrganizationOf"), 2>>,
          <<1, StrHash_new("rdfs:subPropertyOf"), 2>>}

SidecarPredicates ==
    {NamedNode(StrHash_new(iri)) : iri \in Range(Vocabulary) \ {"owl:Class", "rdf:Property"}}
    \cup {BooleanLiteral(TRUE)}

SidecarTriples ==
    {EncodedQuad(s, p, o, DefaultGraph) :
        s \in {NamedNode(1), NamedNode(2)},
        p \in SidecarPredicates,
        o \in {NamedNode(2), NamedNode(MaxClasses), BooleanLiteral(TRUE)}}

InitSidecar ==
    /\ db = EmptyCFs
    /\ id2str = {}
    /\ tx = IdleTx
    /\ call = NoCall
    /\ default_cf = LatestVersion
    /\ run = NoRun
    /\ \E variant \in {"key", "value"}, path \in SUBSET TaxonomyLines,
          quad \in SidecarTriples :
          loader = [pc |-> "construct_tree", variant |-> variant, path |-> path,
                    quads |-> <<quad>>, trees |-> <<>>, L |-> NewFileBulkLoader,
                    values |-> {}, done |-> 0]

\* `let trees = self.construct_tree(path).unwrap()`
ConstructTree ==
    /\ loader.pc = "construct_tree"
    /\ loader' = [loader EXCEPT !.pc = "encode", !.trees = construct_tree(loader.path)]
    /\ UNCHANGED <<db, id2str, tx, call, default_cf, run>>

\* `self.encode(quads)?`
EncodeQuads ==
    /\ loader.pc = "encode"
    /\ loader' = [loader EXCEPT !.pc = "save", !.L = encode(NewFileBulkLoader, loader.quads)]
    /\ UNCHANGED <<db, id2str, tx, call, default_cf, run>>

\* the ingest of the files, and `counter.fetch_add(size)`
ingest(files, with_values) ==
    /\ db' = insert_stt_files([db |-> db, id2str |-> id2str], keys_only(files, with_values)).db
    /\ id2str' = insert_stt_files([db |-> db, id2str |-> id2str], keys_only(files, with_values)).id2str
    /\ loader' = [loader EXCEPT !.pc = "done",
                                !.values = RowsWithValues(files, with_values),
                                !.L = NewFileBulkLoader,
                                !.done = @ + Cardinality(loader.L.triples)
                                           + Cardinality(loader.L.quads)]
    /\ UNCHANGED <<tx, call, default_cf, run>>

\* `self.save_oxiuse_key(trees)?`
SaveOxiuseKey ==
    /\ loader.pc = "save" /\ loader.variant = "key"
    /\ ingest(save_oxiuse_key_files(loader.L, loader.trees), FALSE)

\* `self.save_oxiuse_value(trees)?`
SaveOxiuseValue ==
    /\ loader.pc = "save" /\ loader.variant = "value"
    /\ ingest(save_oxiuse_value_files(loader.L, loader.trees), TRUE)

NextSidecar ==
    \/ ConstructTree
    \/ EncodeQuads
    \/ SaveOxiuseKey
    \/ SaveOxiuseValue

SpecSidecar == InitSidecar /\ [][NextSidecar]_vars

(***************************************************************************)
(* The sidecar of the loaded triple, read back from the rows written.      *)
(***************************************************************************)
\* the triple given to the load
LoadedTriple == loader.quads[1]

IsClassEdge(p) ==
    p \in {NamedNode(StrHash_new("rdfs:subClassOf")),
           NamedNode(StrHash_new("lubm:subOrganizationOf"))}
IsPropertyEdge(p) == p = NamedNode(StrHash_new("rdfs:subPropertyOf"))
IsTypeEdge(p) ==
    p \in {NamedNode(StrHash_new("rdfs:domain")), NamedNode(StrHash_new("rdfs:range")),
           NamedNode(StrHash_new("rdf:type"))}

\* the term is a named node that the labeled tree holds
Found(tree, term) ==
    term[1] = "NamedNode" /\ \E iv \in Range(tree.intervals) : iv.node = term[2]

\* the sidecar bytes of a written row <<cf, key, value>>: the value in the
\* value-side variant, the bytes of the key beside the three terms in the
\* key-side variant
HintOf(row) ==
    IF loader.variant = "value" THEN row[3]
    ELSE SubSeq(row[2], 1,
                Len(row[2]) - Len(encode_term_triple(LoadedTriple.subject, LoadedTriple.predicate,
                                                     LoadedTriple.object)))

\* the big-endian number of `width` bytes after the first `at` bytes
NumberAt(bytes, at, width) == from_be_bytes(SubSeq(bytes, at + 1, at + width))

\* bytes = tag, (start, end) of every interval of s under o, then
\* (start, end, layer) of the first interval of o
SidecarIs(bytes, tag, tree, s, o) ==
    LET under == SelectSeq(tree.intervals,
                           LAMBDA iv : iv.node = s[2] /\ iv.parent = o[2])
        first == SelectSeq(tree.intervals, LAMBDA iv : iv.node = o[2])[1]
        k == Len(under)
    IN  /\ Len(bytes) = 1 + 16 * k + 18
        /\ bytes[1] = tag
        /\ \A j \in 1..k :
              /\ NumberAt(bytes, 1 + 16 * (j - 1), 8) = under[j].start
              /\ NumberAt(bytes, 1 + 16 * (j - 1) + 8, 8) = under[j].end
        /\ NumberAt(bytes, 1 + 16 * k, 8) = first.start
        /\ NumberAt(bytes, 1 + 16 * k + 8, 8) = first.end
        /\ NumberAt(bytes, 1 + 16 * k + 16, 2) = first.layer

\* the line `<s> <p> <o> .` of the triple is in the taxonomy file
Asserted == <<LoadedTriple.subject[2], LoadedTriple.predicate[2], LoadedTriple.object[2]>> \in loader.path

\* C25: for a triple of rdfs:subClassOf or lubm:subOrganizationOf whose
\* subject and object are both in the class tree, the sidecar of each of its
\* rows is the tag 50, (start, end) of every subject interval whose parent is
\* the object, then (start, end, layer) of the object's first interval; the
\* same with the property tree and tag 51 for rdfs:subPropertyOf; when the
\* edge is a line of the taxonomy file the sidecar is not empty, starts with
\* the tag and holds at least one interval of the subject.
C25_SubEdgeSidecar ==
    loader.pc = "done" =>
      \A row \in loader.values :
        /\ (/\ IsClassEdge(LoadedTriple.predicate)
            /\ Found(loader.trees[1], LoadedTriple.subject)
            /\ Found(loader.trees[1], LoadedTriple.object)) =>
              /\ SidecarIs(HintOf(row), TYPE_CLASS, loader.trees[1],
                           LoadedTriple.subject, LoadedTriple.object)
              /\ Asserted => (HintOf(row)[1] = 50 /\ Len(HintOf(row)) >= 35)
        /\ (/\ IsPropertyEdge(LoadedTriple.predicate)
            /\ Found(loader.trees[2], LoadedTriple.subject)
            /\ Found(loader.trees[2], LoadedTriple.object)) =>
              /\ SidecarIs(HintOf(row), TYPE_PROPERTY, loader.trees[2],
                           LoadedTriple.subject, LoadedTriple.object)
              /\ Asserted => (HintOf(row)[1] = 51 /\ Len(HintOf(row)) >= 35)

\* a value-side load of an asserted subClassOf edge whose subject has two
\* intervals under the object and further ones under another parent
C25_Witness ==
    /\ loader.pc = "done" /\ loader.variant = "value"
    /\ LoadedTriple.predicate = NamedNode(StrHash_new("rdfs:subClassOf"))
    /\ Asserted
    /\ \E iv \in Range(loader.trees[1].intervals) :
          iv.node = LoadedTriple.subject[2] /\ iv.parent # LoadedTriple.object[2]
    /\ \E row \in loader.values :
          row[1] = "dspo" /\ Len(row[3]) = 51 /\ row[3][1] = TYPE_CLASS

\* the encoder has nothing to say about the triple: the predicate is no
\* named node or none of the six tracked ones, or a term it looks up is not
\* in the tree
NoHint ==
    \/ LoadedTriple.predicate[1] # "NamedNode"
    \/ ~(IsClassEdge(LoadedTriple.predicate) \/ IsPropertyEdge(LoadedTriple.predicate)
         \/ IsTypeEdge(LoadedTriple.predicate))
    \/ /\ IsClassEdge(LoadedTriple.predicate)
       /\ ~(Found(loader.trees[1], LoadedTriple.subject) /\ Found(loader.trees[1], LoadedTriple.object))
    \/ /\ IsPropertyEdge(LoadedTriple.predicate)
       /\ ~(Found(loader.trees[2], LoadedTriple.subject) /\ Found(loader.trees[2], LoadedTriple.object))
    \/ IsTypeEdge(LoadedTriple.predicate) /\ ~Found(loader.trees[1], LoadedTriple.object)

\* C26: when the predicate is no named node, is none of the six tracked
\* predicates, or a lookup of the subject or object fails, the sidecar is
\* empty (no tag, no partial output) and the triple is written to dspo, dpos
\* and dosp all the same: each holds the plain key of the triple, and the
\* row carries no other byte.
C26_EmptySidecar ==
    (loader.pc = "done" /\ NoHint) =>
      /\ \A row \in loader.values : HintOf(row) = <<>> /\ row[3] = <<>>
      /\ \A r \in Range(index_keys(LoadedTriple)) :
            r[2] \in db[r[1]] /\ <<r[1], r[2], <<>>>> \in loader.values

\* a subClassOf triple whose subject is in the class tree and whose object
\* is not, loaded by the value-side variant
C26_Witness ==
    /\ loader.pc = "done" /\ loader.variant = "value"
    /\ IsClassEdge(LoadedTriple.predicate)
    /\ Found(loader.trees[1], LoadedTriple.subject)
    /\ LoadedTriple.object[1] = "NamedNode"
    /\ ~Found(loader.trees[1], LoadedTriple.object)
    /\ \A cf \in DefaultCFs : Cardinality(db[cf]) = 1

\* C27: in the key-side variant every key written to dspo, dpos and dosp is
\* the three encoded terms in the permutation of the index followed by the
\* sidecar bytes, and the value of the row is empty.
C27_SidecarIsKeySuffix ==
    (loader.pc = "done" /\ loader.variant = "key") =>
      \A r \in Range(index_keys(LoadedTriple)) :
        /\ r[2] \o encoded_interval_encoding(LoadedTriple.subject, LoadedTriple.predicate,
                                             LoadedTriple.object, loader.trees)
              \in db[r[1]]
        /\ \A row \in loader.values : row[1] = r[1] => row[3] = <<>>

\* the (child, parent) pairs that the lines of the given predicates assert
EdgesOf(lines, predicates) ==
    {<<l[1], l[3]>> : l \in {x \in lines : x[2] \in predicates}}

\* the nodes reached from `nodes` by at most n edges upwards
RECURSIVE Above(_, _, _)
Above(edges, nodes, n) ==
    IF n = 0 THEN nodes
    ELSE Above(edges, nodes \cup {e[2] : e \in {x \in edges : x[1] \in nodes}}, n - 1)

\* a chain of one or more edges leads from a up to b
IsBelow(edges, a, b) ==
    b \in Above(edges, {e[2] : e \in {x \in edges : x[1] = a}}, MaxClasses)

\* some interval of a is enclosed by some interval of b
Enclosed(tree, a, b) ==
    \E ia \in Range(tree.intervals), ib \in Range(tree.intervals) :
        /\ ia.node = a /\ ib.node = b
        /\ ib.start <= ia.start /\ ia.end <= ib.end

\* the IRIs that the edges relate
NodesOf(edges) == {e[1] : e \in edges} \cup {e[2] : e \in edges}

SubClassLines == EdgesOf(loader.path, {StrHash_new("rdfs:subClassOf")})
ClassTreeLines ==
    EdgesOf(loader.path, {StrHash_new("rdfs:subClassOf"),
                          StrHash_new("lubm:subOrganizationOf")})

AllCFs == CFNames \cup {"default", "id2str"}

\* Storage::flush: the column families given to Db::flush, in the order of
\* the calls
flush ==
    <<"default", "gpos", "gpos", "gosp", "spog", "posg", "ospg",
      "dspo", "dpos", "dosp", "id2str">>

\* Storage::compact: the column families given to Db::compact
compact ==
    <<"default", "gpos", "gpos", "gosp", "spog", "posg", "ospg",
      "dspo", "dpos", "dosp", "id2str">>

\* Db::flush(cf)
db_flush(engine, cf) ==
    [engine EXCEPT !.memtables = @ \ {cf},
                   !.files = IF cf \in engine.memtables THEN @ \cup {cf} ELSE @]

\* Db::compact(cf)
db_compact(engine, cf) == [engine EXCEPT !.files = @ \ {cf}]

\* the calls of one operation up to the first that fails: call k + 1 returns
\* an error and `?` returns it; k = Len(cfs) is the run without error
RECURSIVE forward(_, _, _, _)
forward(engine, op, cfs, k) ==
    IF k = 0 THEN engine
    ELSE forward(IF op = "flush" THEN db_flush(engine, Head(cfs))
                 ELSE db_compact(engine, Head(cfs)),
                 op, Tail(cfs), k - 1)

InitMaintenance ==
    /\ db = EmptyCFs
    /\ id2str = {}
    /\ tx = IdleTx
    /\ call = NoCall
    /\ loader = NoLoader
    /\ default_cf = LatestVersion
    /\ run = [pc |-> "maintenance", memtables |-> {}, files |-> {},
              op |-> "none", calls |-> <<>>, result |-> "none"]

\* a committed write to a column family lands in its memtable
WriteTo ==
    /\ run.pc = "maintenance"
    /\ \E cf \in AllCFs :
          /\ Cardinality(run.memtables \cup run.files \cup {cf}) <= MaxDirty
          /\ run' = [run EXCEPT !.memtables = @ \cup {cf}, !.op = "write",
                                !.calls = <<>>, !.result = "Ok"]
    /\ UNCHANGED <<db, id2str, tx, call, loader, default_cf>>

\* the engine after the calls of one operation, with the calls made and the
\* value returned
maintain(op, cfs, k) ==
    [forward(run, op, cfs, k) EXCEPT
        !.op = op, !.calls = Prefix(cfs, IF k = Len(cfs) THEN k ELSE k + 1),
        !.result = IF k = Len(cfs) THEN "Ok" ELSE "Err"]

\* one call of Storage::flush
Flush ==
    /\ run.pc = "maintenance"
    /\ \E k \in 0..Len(flush) : run' = maintain("flush", flush, k)
    /\ UNCHANGED <<db, id2str, tx, call, loader, default_cf>>

\* one call of Storage::compact
Compact ==
    /\ run.pc = "maintenance"
    /\ \E k \in 0..Len(compact) : run' = maintain("compact", compact, k)
    /\ UNCHANGED <<db, id2str, tx, call, loader, default_cf>>

NextMaintenance ==
    \/ WriteTo
    \/ Flush
    \/ Compact

SpecMaintenance == InitMaintenance /\ [][NextMaintenance]_vars

\* the number of calls the last operation made on the column family
CallsOn(cf) == Cardinality({i \in DOMAIN run.calls : run.calls[i] = cf})

\* C29: a flush() or compact() that returns Ok has forwarded the operation
\* to the engine by one call for every column family of the store (default,
\* id2str, graphs and the nine indexes), so after flush() no column family
\* has unflushed writes and after compact() none has uncompacted files.
C29_EveryColumnFamily ==
    (run.op \in {"flush", "compact"} /\ run.result = "Ok") =>
      /\ \A cf \in AllCFs : CallsOn(cf) = 1
      /\ run.op = "flush" => run.memtables = {}
      /\ run.op = "compact" => run.files = {}

(***************************************************************************)
(* Scans row by row: DecodingQuadIterator and DecodingGraphIterator over   *)
(* the engine's iterator (storage::backend::Iter), which stands on one row *)
(* of the scanned range: key() is the key of that row, None after the      *)
(* last; next() moves to the following row; status() is the error of the   *)
(* engine, if any.                                                         *)
(***************************************************************************)
\* keys that the index writers produce, for each kind of scan
ScanKeys(kind) ==
    CASE kind = "Gspo" ->
           {write_gspo_quad(<<>>, EncodedQuad(NamedNode(1), NamedNode(1), o, NamedNode(MaxHash + 1))) :
               o \in {NamedNode(1), BooleanLiteral(TRUE)}}
      [] kind = "Dspo" ->
           {write_spo_quad(<<>>, EncodedQuad(NamedNode(1), NamedNode(1), o, DefaultGraph)) :
               o \in {NamedNode(1), BooleanLiteral(TRUE)}}
      [] kind = "graphs" -> {encode_term(g) : g \in GraphNames}

\* keys that no writer produces: a key cut short, and an unknown type byte
BrokenKeys(kind) ==
    {SubSeq(key, 1, Len(key) - 1) : key \in ScanKeys(kind)} \cup {<<200>>}

\* Iter::key
iter_key(iter) ==
    IF iter.pos <= Len(iter.rows) THEN <<iter.rows[iter.pos]>> ELSE <<>>

\* Iter::next
iter_next(iter) ==
    IF iter.pos <= Len(iter.rows) THEN [iter EXCEPT !.pos = @ + 1] ELSE iter

\* the body shared by DecodingQuadIterator::next and
\* DecodingGraphIterator::next; `decoded` is the decoding of the current key:
\*   if let Err(e) = self.iter.status() { return Some(Err(e)); }
\*   let term = decode(self.iter.key()?);
\*   self.iter.next();
\*   Some(term)
decoding_next(iter, decoded) ==
    IF iter.status # "Ok" THEN [iter |-> iter, item |-> <<"Err", iter.status>>]
    ELSE IF iter_key(iter) = <<>> THEN [iter |-> iter, item |-> <<"None">>]
    ELSE [iter |-> iter_next(iter),
          item |-> IF decoded.ok THEN <<"Ok", iter.pos>> ELSE <<"Err", "Corruption">>]

\* the key under the iterator, or the empty key after the last row
current_key(iter) == IF iter_key(iter) = <<>> THEN <<>> ELSE iter_key(iter)[1]

InitScan ==
    /\ db = EmptyCFs
    /\ id2str = {}
    /\ tx = IdleTx
    /\ call = NoCall
    /\ loader = NoLoader
    /\ default_cf = LatestVersion
    /\ \E kind \in {"Gspo", "Dspo", "graphs"} :
       \E rows \in SUBSET (ScanKeys(kind) \cup BrokenKeys(kind)) :
          /\ Cardinality(rows) <= MaxScan
          /\ run = [pc |-> "scan", kind |-> kind,
                    iter |-> [rows |-> sort_unstable(rows), pos |-> 1, status |-> "Ok"],
                    calls |-> 0, item |-> <<"None">>]

\* DecodingQuadIterator::next
QuadNext ==
    /\ run.pc = "scan" /\ run.kind \in {"Gspo", "Dspo"}
    /\ run.calls < MaxScan + 2
    /\ run' = [run EXCEPT
                 !.iter = decoding_next(run.iter, decode(run.kind, current_key(run.iter))).iter,
                 !.item = decoding_next(run.iter, decode(run.kind, current_key(run.iter))).item,
                 !.calls = @ + 1]
    /\ UNCHANGED <<db, id2str, tx, call, loader, default_cf>>

\* DecodingGraphIterator::next
GraphNext ==
    /\ run.pc = "scan" /\ run.kind = "graphs"
    /\ run.calls < MaxScan + 2
    /\ run' = [run EXCEPT
                 !.iter = decoding_next(run.iter, decode_term(current_key(run.iter))).iter,
                 !.item = decoding_next(run.iter, decode_term(current_key(run.iter))).item,
                 !.calls = @ + 1]
    /\ UNCHANGED <<db, id2str, tx, call, loader, default_cf>>

\* the engine meets an error while the scan is open
EngineError ==
    /\ run.pc = "scan" /\ run.iter.status = "Ok"
    /\ run' = [run EXCEPT !.iter.status = "Io"]
    /\ UNCHANGED <<db, id2str, tx, call, loader, default_cf>>

NextScan ==
    \/ QuadNext
    \/ GraphNext
    \/ EngineError

SpecScan == InitScan /\ [][NextScan]_vars

\* the key under the iterator does not decode
OnBrokenRow ==
    /\ run.iter.status = "Ok"
    /\ run.iter.pos <= Len(run.iter.rows)
    /\ run.iter.rows[run.iter.pos] \in BrokenKeys(run.kind)

\* C30: when the key of the row under the iterator fails to decode, next()
\* yields an Err item and the iterator does not advance past that row.
C30_ErrWithoutAdvance ==
    [][(OnBrokenRow /\ run'.calls = run.calls + 1) =>
          (run'.item[1] = "Err" /\ run'.iter.pos = run.iter.pos)]_vars

(***************************************************************************)
(* Loads of the interval variants whose taxonomy file is a ladder: a class *)
(* below `depth` layers of two classes each, every class of a layer being  *)
(* a subclass of both classes of the layer above.  The class at the foot   *)
(* is reached by 2^depth paths, and has as many intervals.                 *)
(***************************************************************************)
\* hashes of the classes of a ladder, apart from those of the vocabulary:
\* the foot and the two classes of each layer
LadderFoot == MaxClasses + Len(Vocabulary) + 1
LadderStep(layer) == {LadderFoot + 2 * layer - 1, LadderFoot + 2 * layer}

\* the lines of the taxonomy file of a ladder
Ladder(depth) ==
    {<<LadderFoot, StrHash_new("rdfs:subClassOf"), up>> : up \in LadderStep(1)}
    \cup UNION {{<<low, StrHash_new("rdfs:subClassOf"), up>> :
                    low \in LadderStep(layer), up \in LadderStep(layer + 1)} :
                layer \in 1..(depth - 1)}

InitLadder ==
    /\ db = EmptyCFs
    /\ id2str = {}
    /\ tx = IdleTx
    /\ call = NoCall
    /\ default_cf = LatestVersion
    /\ run = NoRun
    /\ \E variant \in {"key", "value"}, depth \in 1..MaxLadder,
          iri \in {"rdfs:domain", "rdfs:range", "rdf:type"} :
          loader = [pc |-> "construct_tree", variant |-> variant, path |-> Ladder(depth),
                    quads |-> <<EncodedQuad(NamedNode(1), NamedNode(StrHash_new(iri)),
                                            NamedNode(LadderFoot), DefaultGraph)>>,
                    trees |-> <<>>, L |-> NewFileBulkLoader, values |-> {}, done |-> 0]

SpecLadder == InitLadder /\ [][NextSidecar]_vars

\* the intervals of the object of the loaded triple in the class tree
ObjectIntervals ==
    SelectSeq(loader.trees[1].intervals, LAMBDA iv : iv.node = LoadedTriple.object[2])

\* C31: for a triple of rdfs:domain, rdfs:range or rdf:type whose object is
\* in the class tree, the sidecar of each of its rows is the tag 50, one
\* byte equal to the number of intervals of the object, and that many
\* records of 18 bytes (start, end, layer), for every number of intervals.
C31_CountByteIsNumberOfIntervals ==
    (/\ loader.pc = "done"
     /\ IsTypeEdge(LoadedTriple.predicate)
     /\ Found(loader.trees[1], LoadedTriple.object)) =>
        \A row \in loader.values :
          /\ HintOf(row)[1] = TYPE_CLASS
          /\ HintOf(row)[2] = Len(ObjectIntervals)
          /\ Len(HintOf(row)) = 2 + 18 * Len(ObjectIntervals)
          /\ \A j \in 1..Len(ObjectIntervals) :
                /\ NumberAt(HintOf(row), 2 + 18 * (j - 1), 8) = ObjectIntervals[j].start
                /\ NumberAt(HintOf(row), 2 + 18 * (j - 1) + 8, 8) = ObjectIntervals[j].end
                /\ NumberAt(HintOf(row), 2 + 18 * (j - 1) + 16, 2) = ObjectIntervals[j].layer

(***************************************************************************)
(* The configuration of a bulk load: the number of threads and the batch   *)
(* size that StorageBulkLoader::load derives from the options of the       *)
(* loader and from the machine.  An Option is <<>> (None) or <<v>>.        *)
(***************************************************************************)
MAX_BULK_LOAD_BATCH_SIZE == 100000000

min(a, b) == IF a <= b THEN a ELSE b
max(a, b) == IF a >= b THEN a ELSE b

\* `min(4, system.physical_core_count().unwrap_or(2))`
cpu_count(physical_core_count) ==
    min(4, IF physical_core_count = <<>> THEN 2 ELSE physical_core_count[1])

\* the num_threads of load
load_num_threads(num_threads, max_memory_size, cores) ==
    max(IF num_threads # <<>> THEN num_threads[1]
        ELSE IF max_memory_size # <<>>
        THEN min(cpu_count(cores),
                 (max_memory_size[1] * 1000) \div DEFAULT_BULK_LOAD_BATCH_SIZE)
        ELSE cpu_count(cores),
        2)

\* the batch_size of load
load_batch_size(max_memory_size, free_memory, threads) ==
    min(IF max_memory_size # <<>>
        THEN max(1000, (max_memory_size[1] * 1000) \div threads)
        ELSE max(free_memory \div threads, DEFAULT_BULK_LOAD_BATCH_SIZE),
        MAX_BULK_LOAD_BATCH_SIZE)

\* the options given to the loader and what the machine reports
ThreadOptions == {<<>>} \cup {<<n>> : n \in 0..MaxThreads}
MemoryOptions == {<<>>, <<0>>, <<1>>, <<1000>>, <<4000>>, <<1000000>>}
CoreCounts == {<<>>, <<1>>, <<8>>}
FreeMemories == {0, 1000000, 2000000000}

InitConfig ==
    /\ db = EmptyCFs
    /\ id2str = {}
    /\ tx = IdleTx
    /\ call = NoCall
    /\ default_cf = LatestVersion
    /\ run = NoRun
    /\ \E threads \in ThreadOptions, memory \in MemoryOptions, cores \in CoreCounts,
          free \in FreeMemories :
          loader = [pc |-> "load", num_threads_option |-> threads,
                    max_memory_size |-> memory, physical_core_count |-> cores,
                    free_memory |-> free, num_threads |-> 0, batch_size |-> 0]

\* `let num_threads = max(.., 2)`
ChooseNumThreads ==
    /\ loader.pc = "load"
    /\ loader' = [loader EXCEPT
                    !.pc = "num_threads",
                    !.num_threads = load_num_threads(loader.num_threads_option,
                                                     loader.max_memory_size,
                                                     loader.physical_core_count)]
    /\ UNCHANGED <<db, id2str, tx, call, default_cf, run>>

\* `let batch_size = min(.., MAX_BULK_LOAD_BATCH_SIZE)`
ChooseBatchSize ==
    /\ loader.pc = "num_threads"
    /\ loader' = [loader EXCEPT
                    !.pc = "batch_size",
                    !.batch_size = load_batch_size(loader.max_memory_size,
                                                   loader.free_memory, loader.num_threads)]
    /\ UNCHANGED <<db, id2str, tx, call, default_cf, run>>

NextConfig ==
    \/ ChooseNumThreads
    \/ ChooseBatchSize

SpecConfig == InitConfig /\ [][NextConfig]_vars

\* C32: for every configuration of the loader (memory cap set or not, any
\* thread count, any amount of free memory) the batch size of the load is at
\* least DEFAULT_BULK_LOAD_BATCH_SIZE = 1,000,000 and at most
\* MAX_BULK_LOAD_BATCH_SIZE = 100,000,000.
C32_BatchSizeBounds ==
    loader.pc = "batch_size" =>
      /\ DEFAULT_BULK_LOAD_BATCH_SIZE <= loader.batch_size
      /\ loader.batch_size <= MAX_BULK_LOAD_BATCH_SIZE

(***************************************************************************)
(* A reader, its snapshot, and transactions that commit while the reader   *)
(* is alive: storage.snapshot(), then transactions, then validate() on the *)
(* reader.                                                                 *)
(***************************************************************************)
InitSnapshot ==
    /\ db = EmptyCFs
    /\ id2str = {}
    /\ tx = IdleTx
    /\ call = NoCall
    /\ loader = NoLoader
    /\ default_cf = LatestVersion
    /\ run = [pc |-> "open", tampered |-> 0, ret |-> "none", reader |-> EmptyCFs,
              taken |-> FALSE]

\* Storage::snapshot: the reader keeps the column families as they are now
Snapshot ==
    /\ run.pc = "open"
    /\ ~run.taken
    /\ run' = [run EXCEPT !.reader = db, !.taken = TRUE]
    /\ UNCHANGED <<db, id2str, tx, call, loader, default_cf>>

\* StorageReader::validate on the reader taken before
ValidateReader ==
    /\ run.pc = "open"
    /\ run.taken
    /\ run' = [run EXCEPT !.pc = "validated", !.ret = validate(run.reader, db, id2str)]
    /\ UNCHANGED <<db, id2str, tx, call, loader, default_cf>>

NextSnapshot ==
    \/ Transact
    \/ Snapshot
    \/ ValidateReader

SpecSnapshot == InitSnapshot /\ [][NextSnapshot]_vars

\* C33: validate() on a reader depends on the state of its snapshot only:
\* when the snapshot is coherent (each group of indexes holds the same
\* quads, every graph name of a stored quad is in graphs), validate returns
\* Ok whatever transactions have committed since the snapshot was taken.
C33_ValidateReadsSnapshot ==
    (/\ run.pc = "validated"
     /\ Coherent(run.reader)
     /\ ~GraphMissing(run.reader)) => run.ret = "Ok"


(***************************************************************************)
(* Two concurrent transactions on one named graph.  The engine's           *)
(* isolation is not part of the storage layer: the two readings of it are  *)
(* both modelled.  In either, contains_key_for_update takes the key until  *)
(* the transaction ends (the comments of clear_graph and                   *)
(* remove_encoded_named_graph call it a lock), and the second transaction  *)
(* waits for it.                                                           *)
(*   "latest": a read through a transaction sees what is committed when    *)
(*             the read is made;                                           *)
(*   "begin":  a read through a transaction sees what was committed when   *)
(*             the transaction began, and a read for update fails when     *)
(*             its key was written since.                                  *)
(***************************************************************************)
Isolations == {"latest", "begin"}
IdleRacer == [at |-> "idle", c |-> <<"none", None>>, snap |-> EmptyCFs,
              w |-> [tx |-> IdleTx, db |-> EmptyCFs, id2str |-> {}]]
InitIsolation ==
    /\ db = EmptyCFs
    /\ id2str = {}
    /\ tx = IdleTx
    /\ call = NoCall
    /\ loader = NoLoader
    /\ default_cf = LatestVersion
    /\ \E iso \in Isolations :
          run = [pc |-> "open", tampered |-> 0, isolation |-> iso,
                 t |-> <<IdleRacer, IdleRacer>>]

\* the graph whose graphs key call `c` reads for update
graph_of_call(c) == IF c[1] = "insert" THEN c[2].graph_name ELSE c[2]
graphs_key(g) == encode_term(g)
\* insert reads the graphs key only when the quad is new (mod.rs 940, 976)
reads_graphs_key(c, base) ==
    c[1] = "insert" => write_spog_quad(<<>>, c[2]) \notin base["spog"]

\* db.transaction begins transaction i, which will insert a quad into a
\* named graph (i = 1) or remove or clear that graph (i = 2)
BeginRacer(i) ==
    /\ run.pc = "open"
    /\ run.t[i].at = "idle"
    /\ \E c \in WriterCalls :
          /\ IF i = 1 THEN c[1] = "insert" /\ c[2].graph_name # DefaultGraph
                      ELSE c[1] \in {"remove_named_graph", "clear_graph"} /\ c[2] # DefaultGraph
          /\ run.t[3 - i].at # "idle" => graph_of_call(run.t[3 - i].c) = graph_of_call(c)
          /\ run' = [run EXCEPT !.t[i] = [IdleRacer EXCEPT !.at = "begun", !.c = c, !.snap = db]]
    /\ UNCHANGED <<db, id2str, tx, call, loader, default_cf>>

\* what the reads of transaction i see
read_base(i) == IF run.isolation = "begin" THEN run.t[i].snap ELSE db

\* the closure of transaction i runs; it waits while the other transaction
\* holds the graphs key
RunRacer(i) ==
    /\ run.t[i].at = "begun"
    /\ run.t[3 - i].at # "held"
    /\ run.isolation = "begin" =>
          (graphs_key(graph_of_call(run.t[i].c)) \in db["graphs"]
             <=> graphs_key(graph_of_call(run.t[i].c)) \in run.t[i].snap["graphs"])
    /\ run' = [run EXCEPT
                 !.t[i].at = IF reads_graphs_key(run.t[i].c, read_base(i)) THEN "held" ELSE "ran",
                 !.t[i].w = writer_call([tx |-> [IdleTx EXCEPT !.status = "active"],
                                         db |-> read_base(i), id2str |-> id2str],
                                        run.t[i].c)]
    /\ UNCHANGED <<db, id2str, tx, call, loader, default_cf>>

\* a read for update of a key written since the transaction began fails:
\* the transaction is rolled back and begins again
RetryRacer(i) ==
    /\ run.t[i].at = "begun"
    /\ run.isolation = "begin"
    /\ ~(graphs_key(graph_of_call(run.t[i].c)) \in db["graphs"]
           <=> graphs_key(graph_of_call(run.t[i].c)) \in run.t[i].snap["graphs"])
    /\ run' = [run EXCEPT !.t[i].snap = db]
    /\ UNCHANGED <<db, id2str, tx, call, loader, default_cf>>

\* transaction i commits: its buffered writes reach the database at once
CommitRacer(i) ==
    /\ run.t[i].at \in {"held", "ran"}
    /\ db' = commit(db, run.t[i].w.tx)
    /\ id2str' = id2str \cup run.t[i].w.id2str
    /\ run' = [run EXCEPT !.t[i].at = "done"]
    /\ UNCHANGED <<tx, call, loader, default_cf>>

\* a transaction of its own, while no other is open
TransactAlone ==
    /\ run.t[1].at = "idle"
    /\ run.t[2].at = "idle"
    /\ Transact

NextIsolation ==
    \/ TransactAlone
    \/ \E i \in 1..2 : BeginRacer(i)
    \/ \E i \in 1..2 : RunRacer(i)
    \/ \E i \in 1..2 : RetryRacer(i)
    \/ \E i \in 1..2 : CommitRacer(i)

SpecIsolation == InitIsolation /\ [][NextIsolation]_vars

\* the committed database is coherent and every graph of a stored quad is
\* in graphs
GraphsCoherent == Coherent(db) /\ ~GraphMissing(db)
\* with reads that see the latest committed state the two transactions
\* leave the named-graph indexes coherent
CoherentUnderLatestReads == run.isolation = "latest" => GraphsCoherent
\* with reads that see the state at the beginning of the transaction
CoherentUnderBeginReads == run.isolation = "begin" => GraphsCoherent
BothCommitted == run.t[1].at = "done" /\ run.t[2].at = "done"


\* C35: once load has returned the error of a failed worker, no other
\* worker of that load is still running (none has its files still to
\* ingest, none has its count still to add).
C35_ErrorStopsEveryWorker ==
    (loader.pc = "done" /\ loader.result = "Err") =>
        \A i \in 1..Len(loader.workers) : loader.workers[i].state \in {"finished", "failed"}
\* once load has returned an error, no step ingests a file into the store
IngestAfterError ==
    [][(loader.pc = "done" /\ loader.result = "Err") => (db' = db /\ id2str' = id2str)]_vars


\* what the scan of default-graph index `cf` decodes its rows to
ScanDecoded(cf) == {decode(EncodingOf(cf), key) : key \in db[cf]}
\* every row of `cf` decodes without error, to the loaded triple
ScanGivesLoaded(cf) == ScanDecoded(cf) = {[ok |-> TRUE, quad |-> LoadedTriple]}
HintedRow == \E row \in loader.values : HintOf(row) # <<>>

\* C36: after an interval-variant bulk load (key-side or value-side) of
\* default-graph triples into an empty store, the scans of dspo, dpos and
\* dosp decode without error to exactly the loaded triples, whether the
\* rows carry an empty or a non-empty interval hint.
C36_ScanDecodesLoaded ==
    loader.pc = "done" => \A cf \in DefaultCFs : ScanGivesLoaded(cf)
\* the same for the rows that carry no hint, and for the value-side variant
ScanDecodesValueSideOrNoHint ==
    (loader.pc = "done" /\ (loader.variant = "value" \/ ~HintedRow)) =>
        \A cf \in DefaultCFs : ScanGivesLoaded(cf)
ValueSideHinted == loader.pc = "done" /\ loader.variant = "value" /\ HintedRow
KeySideUnhinted == loader.pc = "done" /\ loader.variant = "key" /\ ~HintedRow


(***************************************************************************)
(* FileBulkLoader::save, file by file: each file is built and pushed on    *)
(* to_load; building a file can fail (new_sst_file, insert, finish); the   *)
(* list is handed to Db::insert_stt_files at the end.                      *)
(***************************************************************************)
\* variant: each file is ingested as soon as it is built
push_ingesting(s, entry) ==
    [s EXCEPT !.to_load = Append(@, entry),
              !.store = insert_stt_files(@, <<entry>>),
              !.calls = @ + 1]
\* `to_load.push((cf, file))`: the worker `s` keeps the file, the store is
\* not touched
push(s, entry) == [s EXCEPT !.to_load = Append(@, entry)]
\* `self.storage.db.insert_stt_files(&to_load)`
ingest_to_load(s) ==
    [s EXCEPT !.store = insert_stt_files(@, s.to_load), !.calls = @ + 1]

SaveWorker == [store |-> Store, to_load |-> loader.to_load, calls |-> loader.calls]

InitSave ==
    /\ \E store \in InitialStores : db = store.db /\ id2str = store.id2str
    /\ tx = IdleTx
    /\ call = NoCall
    /\ default_cf = LatestVersion
    /\ run = NoRun
    /\ \E input \in Inputs :
          loader = [pc |-> "save", batch |-> input,
                    files |-> save_files(encode(NewFileBulkLoader, input)),
                    to_load |-> <<>>, calls |-> 0, result |-> "none",
                    store0 |-> [db |-> db, id2str |-> id2str]]

worker_step(s) ==
    /\ db' = s.store.db
    /\ id2str' = s.store.id2str
    /\ loader' = [loader EXCEPT !.to_load = s.to_load, !.calls = s.calls]

\* the next file of save is built and pushed
BuildFile ==
    /\ loader.pc = "save"
    /\ Len(loader.to_load) < Len(loader.files)
    /\ worker_step(push(SaveWorker, loader.files[Len(loader.to_load) + 1]))
    /\ UNCHANGED <<tx, call, default_cf, run>>

\* building the next file fails: save returns the error with `?`
BuildFails ==
    /\ loader.pc = "save"
    /\ Len(loader.to_load) < Len(loader.files)
    /\ loader' = [loader EXCEPT !.pc = "done", !.result = "Err"]
    /\ UNCHANGED <<db, id2str, tx, call, default_cf, run>>

\* every file is built: the one call of insert_stt_files
IngestFiles ==
    /\ loader.pc = "save"
    /\ Len(loader.to_load) = Len(loader.files)
    /\ db' = ingest_to_load(SaveWorker).store.db
    /\ id2str' = ingest_to_load(SaveWorker).store.id2str
    /\ loader' = [loader EXCEPT !.pc = "done", !.result = "Ok",
                                !.calls = ingest_to_load(SaveWorker).calls]
    /\ UNCHANGED <<tx, call, default_cf, run>>

NextSave ==
    \/ BuildFile
    \/ BuildFails
    \/ IngestFiles

SpecSave == InitSave /\ [][NextSave]_vars

\* the rows of quad q in the indexes of its group: all there, or none
AllRows(q) == \A i \in DOMAIN index_keys(q) : index_keys(q)[i][2] \in db[index_keys(q)[i][1]]
NoRow(q) == \A i \in DOMAIN index_keys(q) : index_keys(q)[i][2] \notin db[index_keys(q)[i][1]]

\* C37: a bulk-load worker builds every file of its batch first and hands
\* them to the engine in exactly one ingest call: at every moment each quad
\* of the batch has all the index rows of its group or none, a save that
\* returns Ok has made one call, and a failure while a file is built leaves
\* the store as it was, without any call.
C37_OneIngestCall ==
    /\ \A i \in DOMAIN loader.batch : AllRows(loader.batch[i]) \/ NoRow(loader.batch[i])
    /\ loader.result = "Ok" =>
          /\ loader.calls = 1
          /\ \A i \in DOMAIN loader.batch : AllRows(loader.batch[i])
    /\ loader.result = "Err" =>
          /\ loader.calls = 0
          /\ db = loader.store0.db
          /\ id2str = loader.store0.id2str
\* a batch with quads of both groups is saved
C37_Witness ==
    /\ loader.result = "Ok"
    /\ db # loader.store0.db
    /\ \E i \in DOMAIN loader.batch : is_default_graph(loader.batch[i].graph_name)
    /\ \E i \in DOMAIN loader.batch : ~is_default_graph(loader.batch[i].graph_name)
\* a file fails after others were built
FailsAfterBuilding == loader.result = "Err" /\ Len(loader.to_load) >= 4


\* the step is a call of insert or remove on the writer
InsertOrRemoveStep ==
    /\ tx.status = "active"
    /\ tx'.nops = tx.nops + 1
    /\ call'.op \in {"insert", "remove"}
\* the column families of the group that quad q has no rows in
OtherGroup(q) ==
    IF is_default_graph(q.graph_name) THEN NamedCFs \cup {"graphs"} ELSE DefaultCFs
\* the step writes nothing to column family cf
Untouched(cf) ==
    /\ tx'.puts[cf] = tx.puts[cf]
    /\ tx'.dels[cf] = tx.dels[cf]
    /\ db'[cf] = db[cf]

\* C38: insert and remove of a default-graph quad leave spog, posg, ospg,
\* gspo, gpos, gosp and graphs unchanged, and insert and remove of a
\* named-graph quad leave dspo, dpos and dosp unchanged.
C38_OtherGroupUnchanged ==
    [][InsertOrRemoveStep => \A cf \in OtherGroup(call'.arg) : Untouched(cf)]_vars
\* a default-graph quad was inserted or removed while named-graph quads are
\* stored
C38_Witness ==
    /\ call.op \in {"insert", "remove"}
    /\ call.ret = "true"
    /\ is_default_graph(call.arg.graph_name)
    /\ ViewNow["spog"] # {}
\* a named-graph quad was removed while default-graph quads are stored
NamedRemovedBesideDefault ==
    /\ call.op = "remove"
    /\ call.ret = "true"
    /\ ~is_default_graph(call.arg.graph_name)
    /\ ViewNow["dspo"] # {}


(***************************************************************************)
(* The store beside the set of quads it stands for: every writer call is   *)
(* made in a transaction of its own and is applied to the set as well.     *)
(***************************************************************************)
\* what a call does to a set of quads
set_call(S, c) ==
    CASE c[1] = "insert" -> S \cup {c[2]}
      [] c[1] = "remove" -> S \ {c[2]}
      [] c[1] \in {"clear_graph", "remove_named_graph"} -> {q \in S : q.graph_name # c[2]}
      [] c[1] \in {"clear_all_named_graphs", "remove_all_named_graphs"} ->
            {q \in S : is_default_graph(q.graph_name)}
      [] c[1] \in {"clear_all_graphs", "clear"} -> {}
      [] OTHER -> S

InitRefine ==
    /\ db = EmptyCFs
    /\ id2str = {}
    /\ tx = IdleTx
    /\ call = NoCall
    /\ loader = NoLoader
    /\ default_cf = LatestVersion
    /\ run = [pc |-> "open", set |-> {}, before |-> {}, last |-> <<"none", None>>]

\* storage.transaction(|mut w| w.<call>), committed
Apply(c) ==
    /\ run.pc = "open"
    /\ committed(writer_call([tx |-> [IdleTx EXCEPT !.status = "active"],
                              db |-> db, id2str |-> id2str], c))
    /\ run' = [run EXCEPT !.set = set_call(run.set, c), !.before = run.set, !.last = c]
    /\ UNCHANGED <<tx, call, loader, default_cf>>

NextRefine == \E c \in WriterCalls : Apply(c)

SpecRefine == InitRefine /\ [][NextRefine]_vars

\* C39: after any sequence of insert, remove and clear operations,
\* contains(q) is true exactly when q was inserted and not removed since,
\* len() is the number of such quads and is_empty() is true exactly when
\* there is none.
C39_RefinesSetOfQuads ==
    /\ \A q \in Quads : contains(db, q) <=> q \in run.set
    /\ len(db) = Cardinality(run.set)
    /\ is_empty(db) <=> run.set = {}
\* a stored quad was removed and a quad of the other group remains
C39_Witness ==
    /\ run.last[1] = "remove"
    /\ run.last[2] \in run.before
    /\ \E q \in run.set :
          is_default_graph(q.graph_name) # is_default_graph(run.last[2].graph_name)
\* a graph that held quads was cleared
ClearedGraph ==
    /\ run.last[1] = "clear_graph"
    /\ run.set # run.before

====
